---- MODULE Spec2Model ----
(***************************************************************************)
(* Model of MDT's chunked processing strategy                              *)
(* (mdt/data/components/standard/processing_strategies/VoxelRange.py).     *)
(*                                                                         *)
(* The volume is modelled flattened: a mask is a sequence of 0/1 of length *)
(* VolSize, in the mask's natural flattening order.  The disk below the    *)
(* model's output path is the chunks directory (chunks_exists) and the     *)
(* slice directories in it (slice_dirs).  Every invocation of run and     *)
(* every call it makes on the worker is appended to calls, so that the    *)
(* order of the calls can be stated.                                       *)
(***************************************************************************)
EXTENDS Integers, Sequences, FiniteSets, TLC

\* Bounds of the model.
VolSize == 4
MaxNmrVoxels == 3
MaxRuns == 2
MaxTotal == 24
MaxFound == 2
MaxOps == 4
MaxProfiles == 3
MaxCount == 3
MaxSubjects == 4
MaxDepth == 4

VARIABLES
    mask,           \* problem_data.mask, flattened
    nmr_voxels,     \* self.nmr_voxels
    recalculate,    \* the recalculate argument of the current run
    run,            \* the number of the current invocation of VoxelRange.run
    pc,             \* the position of the current invocation
    ci,             \* the index of the chunk the for loop is at
    chunk_mask,     \* chunk_mask of the current loop iteration
    chunks_exists,  \* whether <output_path>/chunks exists
    slice_dirs,     \* the slice directories in chunks: name -> content
    calls,          \* the invocations of run and their worker calls, in order
    returned,       \* return_data of each run that returned: run -> data
    bp,             \* a SimpleBatchProfile object
    disk,           \* what a profile's layout finds: root directory -> subjects
    obs,            \* the calls made on bp: their number, the last one, hook runs
    sel,            \* a SelectedSubjects object, its input list and its outcome
    gb,             \* an invocation of batch_profile_factory / get_best_batch_profile
    cr,             \* calls of BatchFitOutputInfo._get_single_model_names
    ow,             \* a walk over the batch fit output, and its collection
    si,             \* a SimpleSubjectInfo object and its mask file
    cc              \* two concurrent invocations of VoxelRange.run

vars == <<mask, nmr_voxels, recalculate, run, pc, ci, chunk_mask,
          chunks_exists, slice_dirs, calls, returned>>

bvars == <<bp, disk, obs, sel, gb>>

cvars == <<cr, ow, si, cc>>

allvars == <<vars, bvars, cvars>>

Min(a, b) == IF a < b THEN a ELSE b

\* An absent file / absent output.
None == <<>>

Masks == [1..VolSize -> {0, 1}]

\* Python values of the batch utilities, by type.
PyNone == [type |-> "NoneType"]
PyStr(s) == [type |-> "str", value |-> s]
PyInt(k) == [type |-> "int", value |-> k]
PyList(xs) == [type |-> "list", value |-> xs]

\* bool(v)
Truth(v) ==
    CASE v.type = "NoneType" -> FALSE
      [] v.type = "str" -> v.value # ""
      [] v.type = "int" -> v.value # 0
      [] v.type = "list" -> v.value # <<>>

\* No object of the batch utilities exists.
IdleProfile == bp = PyNone /\ disk = PyNone /\ obs = PyNone
IdleSelect == sel = PyNone
IdleBest == gb = PyNone
IdleCascade == cr = PyNone
IdleWalk == ow = PyNone
IdleSubject == si = PyNone
IdleConcurrent == cc = PyNone
IdleOthers == IdleCascade /\ IdleWalk /\ IdleSubject /\ IdleConcurrent

\* VoxelRange.run is not invoked.
IdleVoxelRange ==
    /\ mask = <<>>
    /\ nmr_voxels = 1
    /\ recalculate = FALSE
    /\ run = 1
    /\ pc = "idle"
    /\ ci = 0
    /\ chunk_mask = None
    /\ chunks_exists = FALSE
    /\ slice_dirs = <<>>
    /\ calls = <<>>
    /\ returned = <<>>

----------------------------------------------------------------------------
\* numpy and Python builtins

\* np.count_nonzero(mask)
CountNonzero(m) == Cardinality({p \in DOMAIN m : m[p] # 0})

\* range(start, stop, step) for step > 0
RECURSIVE Range(_, _, _)
Range(start, stop, step) ==
    IF start < stop THEN <<start>> \o Range(start + step, stop, step) ELSE <<>>

\* str(n) for n >= 0, as a sequence of characters
DigitChar(d) == <<"0", "1", "2", "3", "4", "5", "6", "7", "8", "9">>[d + 1]

RECURSIVE IntToStr(_)
IntToStr(n) ==
    IF n < 10 THEN <<DigitChar(n)>> ELSE IntToStr(n \div 10) \o <<DigitChar(n % 10)>>

----------------------------------------------------------------------------
\* mdt.utils helpers used by VoxelRange.run

\* The positions of the active voxels, in flattening order.
RECURSIVE ActiveFrom(_, _)
ActiveFrom(m, p) ==
    IF p > Len(m) THEN <<>>
    ELSE (IF m[p] # 0 THEN <<p>> ELSE <<>>) \o ActiveFrom(m, p + 1)

ActivePositions(m) == ActiveFrom(m, 1)

\* create_roi(data, mask): the values of data at the active voxels of mask.
CreateRoi(data, m) ==
    LET act == ActivePositions(m) IN [k \in 1..Len(act) |-> data[act[k]]]

\* restore_volumes(roi_list, mask, with_volume_dim=False): the volume holding
\* roi_list[k] at the k-th active voxel of mask, and 0 elsewhere.
RestoreVolumes(roi_list, m) ==
    LET act == ActivePositions(m) IN
    [p \in 1..Len(m) |->
        IF \E k \in 1..Len(act) : act[k] = p
        THEN roi_list[CHOOSE k \in 1..Len(act) : act[k] = p]
        ELSE 0]

\* ModelChunksProcessingStrategy._prepare_chunk_dir(chunks_dir, recalculate):
\* with recalculate the directory is destroyed; it exists afterwards.
PrepareChunkDir(dirs, recalc) == IF recalc THEN <<>> ELSE dirs

----------------------------------------------------------------------------
\* The worker

\* worker.output_exists(model, problem_data, slice_dir)
OutputExists(dirs, name) == name \in DOMAIN dirs /\ dirs[name].out # None

\* worker.combine(output_path, chunks_dir): the merge of the outputs of all
\* slice directories.
Combine(dirs) ==
    [p \in 1..VolSize |->
        IF \E d \in DOMAIN dirs : dirs[d].out # None /\ dirs[d].out[p] = 1
        THEN 1 ELSE 0]

----------------------------------------------------------------------------
\* VoxelRange

\* _chunks_generator with ind_end = ind_start + nmr_voxels (no min).
ChunksGeneratorNoMin(m) ==
    LET starts == Range(0, CountNonzero(m), nmr_voxels)
    IN  [i \in 1..Len(starts) |-> <<starts[i], starts[i] + nmr_voxels>>]

\* _chunks_generator stopping before a final shorter chunk.
ChunksGeneratorDropsRemainder(m) ==
    LET total_nmr_voxels == CountNonzero(m)
        starts == Range(0, total_nmr_voxels - nmr_voxels + 1, nmr_voxels)
    IN  [i \in 1..Len(starts) |->
            <<starts[i], Min(total_nmr_voxels, starts[i] + nmr_voxels)>>]

\* _chunks_generator yielding the chunks last to first.
ChunksGeneratorReversed(m) ==
    LET total_nmr_voxels == CountNonzero(m)
        starts == Range(0, total_nmr_voxels, nmr_voxels)
    IN  [i \in 1..Len(starts) |->
            <<starts[Len(starts) + 1 - i],
              Min(total_nmr_voxels, starts[Len(starts) + 1 - i] + nmr_voxels)>>]

\* _chunks_generator(mask): the (ind_start, ind_end) pairs it yields.
ChunksGenerator(m) ==
    LET total_nmr_voxels == CountNonzero(m)
        starts == Range(0, total_nmr_voxels, nmr_voxels)
    IN  [i \in 1..Len(starts) |->
            <<starts[i], Min(total_nmr_voxels, starts[i] + nmr_voxels)>>]

\* Python's a[lo:hi] = v on a list a (0-based, hi exclusive, clipped).
SliceAssign(a, lo, hi, v) ==
    [k \in 1..Len(a) |-> IF lo < k /\ k <= hi THEN v ELSE a[k]]

\* The chunk mask without mask_list[:] = 0.
ChunkMaskNoClear(m, ind_start, ind_end) ==
    LET mask_list0 == CreateRoi(m, m)
        mask_list2 == SliceAssign(mask_list0, ind_start, ind_end, 1)
    IN  RestoreVolumes(mask_list2, m)

\* The chunk mask of run's loop body (mask_list ... restore_volumes).
ChunkMask(m, ind_start, ind_end) ==
    LET mask_list0 == CreateRoi(m, m)
        mask_list1 == SliceAssign(mask_list0, 0, Len(mask_list0), 0)
        mask_list2 == SliceAssign(mask_list1, ind_start, ind_end, 1)
    IN  RestoreVolumes(mask_list2, m)

\* The format string with its two fields exchanged.
SliceDirNameSwapped(ind_start, ind_end) ==
    IntToStr(ind_end) \o <<"_">> \o IntToStr(ind_start)

\* '{start}_{end}'.format(start=ind_start, end=ind_end)
SliceDirName(ind_start, ind_end) ==
    IntToStr(ind_start) \o <<"_">> \o IntToStr(ind_end)

\* os.path.join(path, name) for a relative, non-empty name; a path is the
\* sequence of its components.
OsPathJoin(path, name) == Append(path, name)

\* The output_path argument of run.
OutputPath == <<"output_path">>

\* chunks_dir of run
ChunksDir(output_path) == OsPathJoin(output_path, "chunks")

\* slice_dir of _run_on_slice
SliceDirPath(slices_dir, ind_start, ind_end) ==
    OsPathJoin(slices_dir, SliceDirName(ind_start, ind_end))

Call(op, s, e, ok, cm) ==
    [run |-> run, op |-> op, start |-> s, end |-> e, ok |-> ok, cmask |-> cm]

Chunks == ChunksGenerator(mask)
IndStart == Chunks[ci][1]
IndEnd == Chunks[ci][2]
SliceDir == SliceDirName(IndStart, IndEnd)

Init ==
    /\ mask \in Masks
    /\ nmr_voxels \in 1..MaxNmrVoxels
    /\ recalculate \in BOOLEAN
    /\ run = 1
    /\ pc = "start"
    /\ ci = 0
    /\ chunk_mask = None
    /\ chunks_exists = FALSE
    /\ slice_dirs = <<>>
    /\ calls = <<>>
    /\ returned = <<>>
    /\ IdleProfile /\ IdleSelect /\ IdleBest /\ IdleOthers

\* run calling _prepare_chunk_dir(chunks_dir, True) whatever recalculate is.
PrepareIgnoresFlag ==
    /\ pc = "start"
    /\ slice_dirs' = <<>>
    /\ chunks_exists' = TRUE
    /\ calls' = Append(calls, Call("run", 0, 0, recalculate, None))
    /\ ci' = 0
    /\ pc' = "loop"
    /\ UNCHANGED <<mask, nmr_voxels, recalculate, run, chunk_mask, returned>>

\* run, up to the for loop: _prepare_chunk_dir.
Prepare ==
    /\ pc = "start"
    /\ slice_dirs' = (IF chunks_exists THEN PrepareChunkDir(slice_dirs, recalculate)
                      ELSE <<>>)
    /\ chunks_exists' = TRUE
    /\ calls' = Append(calls, Call("run", 0, 0, recalculate, None))
    /\ ci' = 0
    /\ pc' = "loop"
    /\ UNCHANGED <<mask, nmr_voxels, recalculate, run, chunk_mask, returned>>

\* The step of the for loop returning at once when there was no chunk.
NextChunkReturnsOnEmpty ==
    /\ pc = "loop"
    /\ IF ci < Len(Chunks)
       THEN LET ind_start == Chunks[ci + 1][1]
                ind_end == Chunks[ci + 1][2]
                indices == [k \in 1..CountNonzero(mask) |-> k - 1]
                chunk_indices == SubSeq(indices, ind_start + 1, ind_end)
            IN  /\ ci' = ci + 1
                /\ chunk_mask' = ChunkMask(mask, ind_start, ind_end)
                /\ pc' = IF Len(chunk_indices) > 0 THEN "slice" ELSE "loop"
       ELSE /\ pc' = IF Len(Chunks) = 0 THEN "done" ELSE "combine"
            /\ UNCHANGED <<ci, chunk_mask>>
    /\ UNCHANGED <<mask, nmr_voxels, recalculate, run, chunks_exists, slice_dirs,
                   calls, returned>>

\* The step of the for loop with a guard that drops a chunk of one voxel.
NextChunkDropsSingle ==
    /\ pc = "loop"
    /\ IF ci < Len(Chunks)
       THEN LET ind_start == Chunks[ci + 1][1]
                ind_end == Chunks[ci + 1][2]
                indices == [k \in 1..CountNonzero(mask) |-> k - 1]
                chunk_indices == SubSeq(indices, ind_start + 1, ind_end)
            IN  /\ ci' = ci + 1
                /\ chunk_mask' = ChunkMask(mask, ind_start, ind_end)
                /\ pc' = IF Len(chunk_indices) > 1 THEN "slice" ELSE "loop"
       ELSE /\ pc' = "combine"
            /\ UNCHANGED <<ci, chunk_mask>>
    /\ UNCHANGED <<mask, nmr_voxels, recalculate, run, chunks_exists, slice_dirs,
                   calls, returned>>

\* One step of the for loop: the next chunk of the generator, its chunk
\* mask, and the guard on the chunk's indices.  (_selected_indices only
\* narrows the model object to the chunk's voxels for the duration of
\* _run_on_slice; it touches neither the disk nor the worker.)
NextChunk ==
    /\ pc = "loop"
    /\ IF ci < Len(Chunks)
       THEN LET ind_start == Chunks[ci + 1][1]
                ind_end == Chunks[ci + 1][2]
                indices == [k \in 1..CountNonzero(mask) |-> k - 1]
                chunk_indices == SubSeq(indices, ind_start + 1, ind_end)
            IN  /\ ci' = ci + 1
                /\ chunk_mask' = ChunkMask(mask, ind_start, ind_end)
                /\ pc' = IF Len(chunk_indices) > 0 THEN "slice" ELSE "loop"
       ELSE /\ pc' = "combine"
            /\ UNCHANGED <<ci, chunk_mask>>
    /\ UNCHANGED <<mask, nmr_voxels, recalculate, run, chunks_exists, slice_dirs,
                   calls, returned>>

\* _run_on_slice deleting an existing slice directory whatever recalculate is.
RunOnSliceAlwaysDelete ==
    /\ pc = "slice"
    /\ LET dirs == IF SliceDir \in DOMAIN slice_dirs
                   THEN [d \in DOMAIN slice_dirs \ {SliceDir} |-> slice_dirs[d]]
                   ELSE slice_dirs
           exists == OutputExists(dirs, SliceDir)
       IN  /\ slice_dirs' = dirs
           /\ calls' = Append(calls, Call("output_exists", IndStart, IndEnd, exists, None))
           /\ pc' = IF exists THEN "loop" ELSE "process"
    /\ UNCHANGED <<mask, nmr_voxels, recalculate, run, ci, chunk_mask, chunks_exists,
                   returned>>

\* _run_on_slice with the branch on worker.output_exists inverted.
RunOnSliceInverted ==
    /\ pc = "slice"
    /\ LET dirs == IF recalculate /\ SliceDir \in DOMAIN slice_dirs
                   THEN [d \in DOMAIN slice_dirs \ {SliceDir} |-> slice_dirs[d]]
                   ELSE slice_dirs
           exists == OutputExists(dirs, SliceDir)
       IN  /\ slice_dirs' = dirs
           /\ calls' = Append(calls, Call("output_exists", IndStart, IndEnd, exists, None))
           /\ pc' = IF exists THEN "process" ELSE "loop"
    /\ UNCHANGED <<mask, nmr_voxels, recalculate, run, ci, chunk_mask, chunks_exists,
                   returned>>

\* _run_on_slice going on to worker.process after the skip message too.
RunOnSliceAlwaysProcess ==
    /\ pc = "slice"
    /\ LET dirs == IF recalculate /\ SliceDir \in DOMAIN slice_dirs
                   THEN [d \in DOMAIN slice_dirs \ {SliceDir} |-> slice_dirs[d]]
                   ELSE slice_dirs
           exists == OutputExists(dirs, SliceDir)
       IN  /\ slice_dirs' = dirs
           /\ calls' = Append(calls, Call("output_exists", IndStart, IndEnd, exists, None))
           /\ pc' = "process"
    /\ UNCHANGED <<mask, nmr_voxels, recalculate, run, ci, chunk_mask, chunks_exists,
                   returned>>

\* _run_on_slice up to the branch on worker.output_exists.
RunOnSlice ==
    /\ pc = "slice"
    /\ LET dirs == IF recalculate /\ SliceDir \in DOMAIN slice_dirs
                   THEN [d \in DOMAIN slice_dirs \ {SliceDir} |-> slice_dirs[d]]
                   ELSE slice_dirs
           exists == OutputExists(dirs, SliceDir)
       IN  /\ slice_dirs' = dirs
           /\ calls' = Append(calls, Call("output_exists", IndStart, IndEnd, exists, None))
           /\ pc' = IF exists THEN "loop" ELSE "process"
    /\ UNCHANGED <<mask, nmr_voxels, recalculate, run, ci, chunk_mask, chunks_exists,
                   returned>>

\* worker.process returns, then the chunk mask is written.
ProcessReturns ==
    /\ pc = "process"
    /\ slice_dirs' = [d \in DOMAIN slice_dirs \cup {SliceDir} |->
                        IF d = SliceDir
                        THEN [out |-> chunk_mask, mask_file |-> chunk_mask]
                        ELSE slice_dirs[d]]
    /\ calls' = Append(calls, Call("process", IndStart, IndEnd, TRUE, chunk_mask))
    /\ pc' = "loop"
    /\ UNCHANGED <<mask, nmr_voxels, recalculate, run, ci, chunk_mask, chunks_exists,
                   returned>>

\* worker.process raises and the chunk mask is written all the same.
ProcessRaisesWritesMask ==
    /\ pc = "process"
    /\ slice_dirs' = [d \in DOMAIN slice_dirs \cup {SliceDir} |->
                        IF d = SliceDir
                        THEN [out |-> None, mask_file |-> chunk_mask]
                        ELSE slice_dirs[d]]
    /\ calls' = Append(calls, Call("process", IndStart, IndEnd, FALSE, chunk_mask))
    /\ pc' = "aborted"
    /\ UNCHANGED <<mask, nmr_voxels, recalculate, run, ci, chunk_mask, chunks_exists,
                   returned>>

\* worker.process raises and the exception is swallowed: the loop goes on.
ProcessRaisesSwallowed ==
    /\ pc = "process"
    /\ calls' = Append(calls, Call("process", IndStart, IndEnd, FALSE, chunk_mask))
    /\ pc' = "loop"
    /\ UNCHANGED <<mask, nmr_voxels, recalculate, run, ci, chunk_mask, chunks_exists,
                   slice_dirs, returned>>

\* worker.process raises: the exception leaves run. The worker may have
\* created the slice directory and written a part of its output.
ProcessRaises ==
    /\ pc = "process"
    /\ \E partial \in BOOLEAN :
        slice_dirs' = IF partial
                      THEN [d \in DOMAIN slice_dirs \cup {SliceDir} |->
                               IF d = SliceDir
                               THEN [out |-> None, mask_file |-> None]
                               ELSE slice_dirs[d]]
                      ELSE slice_dirs
    /\ calls' = Append(calls, Call("process", IndStart, IndEnd, FALSE, chunk_mask))
    /\ pc' = "aborted"
    /\ UNCHANGED <<mask, nmr_voxels, recalculate, run, ci, chunk_mask, chunks_exists,
                   returned>>

\* worker.combine returns.
CombineReturns ==
    /\ pc = "combine"
    /\ calls' = Append(calls, Call("combine", 0, 0, TRUE, None))
    /\ returned' = [r \in DOMAIN returned \cup {run} |->
                       IF r = run THEN Combine(slice_dirs) ELSE returned[r]]
    /\ pc' = "rmtree"
    /\ UNCHANGED <<mask, nmr_voxels, recalculate, run, ci, chunk_mask, chunks_exists,
                   slice_dirs>>

\* worker.combine raises and the chunks directory is removed all the same
\* (rmtree in a finally clause).
CombineRaisesCleanup ==
    /\ pc = "combine"
    /\ calls' = Append(calls, Call("combine", 0, 0, FALSE, None))
    /\ chunks_exists' = FALSE
    /\ slice_dirs' = <<>>
    /\ pc' = "merge_failed"
    /\ UNCHANGED <<mask, nmr_voxels, recalculate, run, ci, chunk_mask, returned>>

\* worker.combine raises: the exception leaves run.
CombineRaises ==
    /\ pc = "combine"
    /\ calls' = Append(calls, Call("combine", 0, 0, FALSE, None))
    /\ pc' = "merge_failed"
    /\ UNCHANGED <<mask, nmr_voxels, recalculate, run, ci, chunk_mask, chunks_exists,
                   slice_dirs, returned>>

\* shutil.rmtree(chunks_dir); return return_data
Rmtree ==
    /\ pc = "rmtree"
    /\ chunks_exists' = FALSE
    /\ slice_dirs' = <<>>
    /\ pc' = "done"
    /\ UNCHANGED <<mask, nmr_voxels, recalculate, run, ci, chunk_mask, calls, returned>>

\* The caller invokes run again, on the same model, data and output path.
Invoke ==
    /\ pc \in {"done", "aborted", "merge_failed"}
    /\ run < MaxRuns
    /\ run' = run + 1
    /\ recalculate' \in BOOLEAN
    /\ pc' = "start"
    /\ ci' = 0
    /\ chunk_mask' = None
    /\ UNCHANGED <<mask, nmr_voxels, chunks_exists, slice_dirs, calls, returned>>

Next ==
    \/ Prepare /\ UNCHANGED bvars /\ UNCHANGED cvars
    \/ NextChunk /\ UNCHANGED bvars /\ UNCHANGED cvars
    \/ RunOnSlice /\ UNCHANGED bvars /\ UNCHANGED cvars
    \/ ProcessReturns /\ UNCHANGED bvars /\ UNCHANGED cvars
    \/ ProcessRaises /\ UNCHANGED bvars /\ UNCHANGED cvars
    \/ CombineReturns /\ UNCHANGED bvars /\ UNCHANGED cvars
    \/ CombineRaises /\ UNCHANGED bvars /\ UNCHANGED cvars
    \/ Rmtree /\ UNCHANGED bvars /\ UNCHANGED cvars
    \/ Invoke /\ UNCHANGED bvars /\ UNCHANGED cvars

Spec == Init /\ [][Next]_allvars

----------------------------------------------------------------------------
\* The slice directories of the chunks of larger masks: run's loop over
\* _chunks_generator, reduced to the path _run_on_slice computes for each
\* chunk, for masks of up to MaxTotal active voxels and in repeated runs.

InitNames ==
    /\ mask \in {[p \in 1..t |-> 1] : t \in 0..MaxTotal}
    /\ nmr_voxels \in 1..MaxNmrVoxels
    /\ recalculate = FALSE
    /\ run = 1
    /\ pc = "slice_dir"
    /\ ci = 0
    /\ chunk_mask = None
    /\ chunks_exists = TRUE
    /\ slice_dirs = <<>>
    /\ calls = <<>>
    /\ returned = <<>>
    /\ IdleProfile /\ IdleSelect /\ IdleBest /\ IdleOthers

\* The slice directory of the next chunk.
NameSlice ==
    /\ pc = "slice_dir"
    /\ ci < Len(Chunks)
    /\ ci' = ci + 1
    /\ calls' = Append(calls,
                       Call("slice_dir", Chunks[ci + 1][1], Chunks[ci + 1][2], TRUE,
                            SliceDirPath(ChunksDir(OutputPath),
                                         Chunks[ci + 1][1], Chunks[ci + 1][2])))
    /\ UNCHANGED <<mask, nmr_voxels, recalculate, run, pc, chunk_mask, chunks_exists,
                   slice_dirs, returned>>

\* run is invoked again with the same mask and nmr_voxels.
NameAgain ==
    /\ pc = "slice_dir"
    /\ ci = Len(Chunks)
    /\ run < MaxRuns
    /\ run' = run + 1
    /\ ci' = 0
    /\ UNCHANGED <<mask, nmr_voxels, recalculate, pc, chunk_mask, chunks_exists,
                   slice_dirs, calls, returned>>

NextNames ==
    \/ NameSlice /\ UNCHANGED bvars /\ UNCHANGED cvars
    \/ NameAgain /\ UNCHANGED bvars /\ UNCHANGED cvars

SpecNames == InitNames /\ [][NextNames]_allvars

----------------------------------------------------------------------------
\* SimpleBatchProfile (batch_utils.py): the memoized discovery of subjects
\* and the output directory of a subject.

\* The ids of the subjects a directory can hold, in the order of discovery.
SubjectIds == <<"subj1", "subj2", "subj3", "subj4", "subj5", "subj6">>

\* The directories set_root_dir is called with; <<>> is '', the root
\* directory of a new profile.
RootDirs == {<<"root">>, <<"root2">>}

\* The values the setters are called with.
BaseDirs == {"output", "results"}
SubDirs == {PyNone, PyStr(""), PyStr("run1")}

\* The mask file names of subjects.
MaskFnames == {"brain_mask.nii.gz", "wm_mask.nii", "masks/brain_mask.nii"}
MaskArgs == {PyNone, PyStr("")} \cup {PyStr(f) : f \in MaskFnames}

\* A str holding a path, the path being the sequence of its components.
PyPath(p) == [type |-> "path", value |-> p]

\* mdt.utils.split_image_path: (folder, basename, extension)
SplitImagePath(fname) ==
    CASE fname = "brain_mask.nii.gz" -> <<"", "brain_mask", ".nii.gz">>
      [] fname = "wm_mask.nii" -> <<"", "wm_mask", ".nii">>
      [] fname = "masks/brain_mask.nii" -> <<"masks/", "brain_mask", ".nii">>

\* SimpleBatchProfile() after __init__
SimpleBatchProfileInit ==
    [root_dir |-> <<>>,
     subjects_found |-> PyNone,
     output_base_dir |-> "output",
     output_sub_dir |-> PyNone,
     append_mask_name_to_output_sub_dir |-> TRUE]

\* _get_subject_output_dir appending the mask name whatever the flag is.
get_subject_output_dir_ignores_flag(self, subject_id, mask_fname, subject_base_dir) ==
    LET base == IF subject_base_dir.type = "path" /\ subject_base_dir.value # <<>>
                THEN subject_base_dir.value
                ELSE OsPathJoin(OsPathJoin(self.root_dir, subject_id),
                                self.output_base_dir)
        sub == IF Truth(self.output_sub_dir)
               THEN OsPathJoin(base, self.output_sub_dir.value)
               ELSE base
    IN IF Truth(mask_fname)
       THEN OsPathJoin(sub, SplitImagePath(mask_fname.value)[2])
       ELSE sub

\* SimpleBatchProfile._get_subject_output_dir
get_subject_output_dir(self, subject_id, mask_fname, subject_base_dir) ==
    LET base == IF subject_base_dir.type = "path" /\ subject_base_dir.value # <<>>
                THEN subject_base_dir.value
                ELSE OsPathJoin(OsPathJoin(self.root_dir, subject_id),
                                self.output_base_dir)
        sub == IF Truth(self.output_sub_dir)
               THEN OsPathJoin(base, self.output_sub_dir.value)
               ELSE base
    IN IF self.append_mask_name_to_output_sub_dir /\ Truth(mask_fname)
       THEN OsPathJoin(sub, SplitImagePath(mask_fname.value)[2])
       ELSE sub

\* SimpleSubjectInfo.__init__: a subject without a mask gets the name of the
\* mask to generate in its output directory.
SimpleSubjectInfo(subject_id, mask_fname, output_dir) ==
    [subject_id |-> subject_id,
     mask_fname |-> IF mask_fname = PyNone
                    THEN PyPath(OsPathJoin(output_dir, "auto_generated_mask.nii.gz"))
                    ELSE mask_fname,
     output_dir |-> output_dir]

\* _get_subjects of a concrete profile: one SimpleSubjectInfo for each
\* subject its layout finds in the root directory, the output directory
\* from _get_subject_output_dir.
hook_get_subjects(self, found) ==
    [k \in 1..Len(found) |->
        SimpleSubjectInfo(found[k].subject_id, found[k].mask_fname,
                          get_subject_output_dir(self, found[k].subject_id,
                                                 found[k].mask_fname, PyNone))]

\* set_root_dir dropping the subjects found.
set_root_dir_clears_memo(self, root_dir) ==
    [self EXCEPT !.root_dir = root_dir, !.subjects_found = PyNone]

\* BatchProfile.set_root_dir
set_root_dir(self, root_dir) == [self EXCEPT !.root_dir = root_dir]

\* the output_base_dir setter
set_output_base_dir(self, output_base_dir) ==
    [self EXCEPT !.output_base_dir = output_base_dir, !.subjects_found = PyNone]

\* The output_sub_dir setter leaving the memo.
set_output_sub_dir_keeps_memo(self, output_sub_dir) ==
    [self EXCEPT !.output_sub_dir = output_sub_dir]

\* the output_sub_dir setter
set_output_sub_dir(self, output_sub_dir) ==
    [self EXCEPT !.output_sub_dir = output_sub_dir, !.subjects_found = PyNone]

\* the append_mask_name_to_output_sub_dir setter
set_append_mask_name_to_output_sub_dir(self, append_mask_name_to_output_sub_dir) ==
    [self EXCEPT !.append_mask_name_to_output_sub_dir =
                     append_mask_name_to_output_sub_dir]

\* The three queries: the object after the call (self), the value returned
\* (ret) and whether _get_subjects ran (hook). found is what _get_subjects
\* finds in the root directory.

\* SimpleBatchProfile.get_subjects
get_subjects(self, found) ==
    LET hook == ~Truth(self.subjects_found)
        after == IF hook
                 THEN [self EXCEPT !.subjects_found = PyList(hook_get_subjects(self, found))]
                 ELSE self
    IN [self |-> after, ret |-> after.subjects_found, hook |-> hook]

\* profile_suitable with >= for >.
profile_suitable_nonnegative(self, found) ==
    LET hook == ~Truth(self.subjects_found)
        after == IF hook
                 THEN [self EXCEPT !.subjects_found = PyList(hook_get_subjects(self, found))]
                 ELSE self
    IN [self |-> after, ret |-> Len(after.subjects_found.value) >= 0, hook |-> hook]

\* SimpleBatchProfile.profile_suitable
profile_suitable(self, found) ==
    LET hook == ~Truth(self.subjects_found)
        after == IF hook
                 THEN [self EXCEPT !.subjects_found = PyList(hook_get_subjects(self, found))]
                 ELSE self
    IN [self |-> after, ret |-> Len(after.subjects_found.value) > 0, hook |-> hook]

\* SimpleBatchProfile.get_subjects_count
get_subjects_count(self, found) ==
    LET hook == ~Truth(self.subjects_found)
        after == IF hook
                 THEN [self EXCEPT !.subjects_found = PyList(hook_get_subjects(self, found))]
                 ELSE self
    IN [self |-> after, ret |-> Len(after.subjects_found.value), hook |-> hook]

\* What a layout can find in a directory: up to MaxFound subjects with
\* distinct ids, each with a mask file or none.
Listings ==
    {f \in UNION {[1..n -> [subject_id : {SubjectIds[k] : k \in 1..MaxFound},
                            mask_fname : {PyNone, PyStr("brain_mask.nii.gz"),
                                          PyStr("wm_mask.nii")}]]
                  : n \in 0..MaxFound} :
        \A i, j \in DOMAIN f :
            i < j => \E a, b \in 1..MaxFound :
                        a < b /\ f[i].subject_id = SubjectIds[a]
                              /\ f[j].subject_id = SubjectIds[b]}

\* What the layout finds in the second directory: nothing, or one subject
\* without a mask.
SmallListings == {<<>>, <<[subject_id |-> SubjectIds[1], mask_fname |-> PyNone]>>}

\* The record of a call on bp: op the method, hook whether _get_subjects
\* ran in it, ret its value, pending whether it is the first query since
\* output_base_dir or output_sub_dir was set, dropped whether that setter
\* found a non-empty memo.
Observed(op, hook, ret, pending, dropped) ==
    [op |-> op, hook |-> hook, ret |-> ret, pending |-> pending, dropped |-> dropped]

Queries == {"get_subjects", "profile_suitable", "get_subjects_count"}

InitProfile ==
    /\ bp = SimpleBatchProfileInit
    /\ \E found \in Listings, small \in SmallListings :
          disk = [r \in RootDirs \cup {<<>>} |->
                     IF r = <<"root">> THEN found
                     ELSE IF r = <<"root2">> THEN small
                     ELSE <<>>]
    /\ obs = [nops |-> 0, hook_runs |-> 0, pending |-> FALSE, dropped |-> FALSE,
              last |-> Observed("__init__", FALSE, PyNone, FALSE, FALSE)]
    /\ IdleVoxelRange /\ IdleSelect /\ IdleBest /\ IdleOthers

\* A call of a method that is no query: obs after it. clears tells whether
\* the method is the output_base_dir or the output_sub_dir setter.
AfterSetter(op, clears) ==
    [nops |-> obs.nops + 1,
     hook_runs |-> IF clears THEN 0 ELSE obs.hook_runs,
     pending |-> clears \/ obs.pending,
     dropped |-> IF clears
                 THEN Truth(bp.subjects_found) \/ (obs.pending /\ obs.dropped)
                 ELSE obs.dropped,
     last |-> Observed(op, FALSE, PyNone, FALSE, FALSE)]

\* A call of a query with outcome r: obs after it.
AfterQuery(op, r) ==
    [nops |-> obs.nops + 1,
     hook_runs |-> obs.hook_runs + (IF r.hook THEN 1 ELSE 0),
     pending |-> FALSE,
     dropped |-> FALSE,
     last |-> Observed(op, r.hook, r.ret, obs.pending, obs.pending /\ obs.dropped)]

SetRootDir ==
    /\ obs.nops < MaxOps
    /\ \E root_dir \in RootDirs : bp' = set_root_dir(bp, root_dir)
    /\ obs' = AfterSetter("set_root_dir", FALSE)
    /\ UNCHANGED disk

SetOutputBaseDir ==
    /\ obs.nops < MaxOps
    /\ \E output_base_dir \in BaseDirs : bp' = set_output_base_dir(bp, output_base_dir)
    /\ obs' = AfterSetter("output_base_dir", TRUE)
    /\ UNCHANGED disk

SetOutputSubDir ==
    /\ obs.nops < MaxOps
    /\ \E output_sub_dir \in SubDirs : bp' = set_output_sub_dir(bp, output_sub_dir)
    /\ obs' = AfterSetter("output_sub_dir", TRUE)
    /\ UNCHANGED disk

SetAppendMaskName ==
    /\ obs.nops < MaxOps
    /\ \E flag \in BOOLEAN : bp' = set_append_mask_name_to_output_sub_dir(bp, flag)
    /\ obs' = AfterSetter("append_mask_name_to_output_sub_dir", FALSE)
    /\ UNCHANGED disk

GetSubjects ==
    /\ obs.nops < MaxOps
    /\ LET r == get_subjects(bp, disk[bp.root_dir]) IN
          /\ bp' = r.self
          /\ obs' = AfterQuery("get_subjects", r)
    /\ UNCHANGED disk

ProfileSuitable ==
    /\ obs.nops < MaxOps
    /\ LET r == profile_suitable(bp, disk[bp.root_dir]) IN
          /\ bp' = r.self
          /\ obs' = AfterQuery("profile_suitable", r)
    /\ UNCHANGED disk

GetSubjectsCount ==
    /\ obs.nops < MaxOps
    /\ LET r == get_subjects_count(bp, disk[bp.root_dir]) IN
          /\ bp' = r.self
          /\ obs' = AfterQuery("get_subjects_count", r)
    /\ UNCHANGED disk

NextProfile ==
    \/ SetRootDir /\ UNCHANGED <<vars, sel, gb>> /\ UNCHANGED cvars
    \/ SetOutputBaseDir /\ UNCHANGED <<vars, sel, gb>> /\ UNCHANGED cvars
    \/ SetOutputSubDir /\ UNCHANGED <<vars, sel, gb>> /\ UNCHANGED cvars
    \/ SetAppendMaskName /\ UNCHANGED <<vars, sel, gb>> /\ UNCHANGED cvars
    \/ GetSubjects /\ UNCHANGED <<vars, sel, gb>> /\ UNCHANGED cvars
    \/ ProfileSuitable /\ UNCHANGED <<vars, sel, gb>> /\ UNCHANGED cvars
    \/ GetSubjectsCount /\ UNCHANGED <<vars, sel, gb>> /\ UNCHANGED cvars

SpecProfile == InitProfile /\ [][NextProfile]_allvars

----------------------------------------------------------------------------
\* batch_profile_factory, get_best_batch_profile and BatchFitOutputInfo
\* (batch_utils.py): the choice of the profile for a data folder.

\* The data_folder argument.
DataFolder == <<"root">>

\* What a profile finding count subjects in the data folder finds.
ListingOf(count) ==
    [k \in 1..count |-> [subject_id |-> SubjectIds[k], mask_fname |-> PyNone]]

\* The registered profiles (BatchProfilesLoader.list_all, load): up to
\* MaxProfiles new SimpleBatchProfile objects, profile k finding finds[k] in
\* the data folder. The batch_profile argument is None or one of them.
InitBest ==
    /\ \E n \in 0..MaxProfiles :
         \E counts \in [1..n -> 0..MaxCount] :
           \E batch_profile \in {PyNone} \cup {PyInt(k) : k \in 1..n} :
             gb = [batch_profile |-> batch_profile,
                   crawlers |-> [k \in 1..n |-> SimpleBatchProfileInit],
                   finds |-> [k \in 1..n |-> ListingOf(counts[k])],
                   pc |-> "factory",
                   ind |-> 0,
                   best_crawler |-> PyNone,
                   best_subjects_count |-> 0,
                   found |-> PyNone,
                   ret |-> PyNone,
                   subjects |-> PyNone]
    /\ IdleVoxelRange /\ IdleProfile /\ IdleSelect /\ IdleOthers

\* batch_profile_factory up to the call of set_root_dir: a None
\* batch_profile enters get_best_batch_profile, a profile object is taken
\* as it is.
Factory ==
    /\ gb.pc = "factory"
    /\ gb' = IF gb.batch_profile = PyNone
             THEN [gb EXCEPT !.pc = "best", !.ind = 0,
                             !.best_crawler = PyNone, !.best_subjects_count = 0]
             ELSE [gb EXCEPT !.pc = "bind", !.found = gb.batch_profile]

\* The loop body of get_best_batch_profile with >= for >.
BestIterateLastWins ==
    /\ gb.pc = "best"
    /\ gb.ind < Len(gb.crawlers)
    /\ LET k == gb.ind + 1
           bound == set_root_dir(gb.crawlers[k], DataFolder)
           suitable == profile_suitable(bound, gb.finds[k])
           tmp_count == get_subjects_count(suitable.self, gb.finds[k])
           better == suitable.ret /\ tmp_count.ret >= gb.best_subjects_count
       IN gb' = [gb EXCEPT
                   !.ind = k,
                   !.crawlers[k] = IF suitable.ret THEN tmp_count.self ELSE suitable.self,
                   !.best_crawler = IF better THEN PyInt(k) ELSE @,
                   !.best_subjects_count = IF better THEN tmp_count.ret ELSE @]

\* One iteration of the loop of get_best_batch_profile.
BestIterate ==
    /\ gb.pc = "best"
    /\ gb.ind < Len(gb.crawlers)
    /\ LET k == gb.ind + 1
           bound == set_root_dir(gb.crawlers[k], DataFolder)
           suitable == profile_suitable(bound, gb.finds[k])
           tmp_count == get_subjects_count(suitable.self, gb.finds[k])
           better == suitable.ret /\ tmp_count.ret > gb.best_subjects_count
       IN gb' = [gb EXCEPT
                   !.ind = k,
                   !.crawlers[k] = IF suitable.ret THEN tmp_count.self ELSE suitable.self,
                   !.best_crawler = IF better THEN PyInt(k) ELSE @,
                   !.best_subjects_count = IF better THEN tmp_count.ret ELSE @]

\* return best_crawler
BestReturn ==
    /\ gb.pc = "best"
    /\ gb.ind = Len(gb.crawlers)
    /\ gb' = [gb EXCEPT !.pc = "bind", !.found = gb.best_crawler]

\* batch_profile_factory binding the first registered profile when
\* get_best_batch_profile returned None.
FactoryBindFallsBack ==
    /\ gb.pc = "bind"
    /\ gb' = IF gb.found = PyNone /\ Len(gb.crawlers) = 0
             THEN [gb EXCEPT !.pc = "AttributeError"]
             ELSE LET k == IF gb.found = PyNone THEN 1 ELSE gb.found.value IN
                  [gb EXCEPT !.pc = "returned",
                             !.crawlers[k] = set_root_dir(@, DataFolder),
                             !.ret = PyInt(k)]

\* batch_profile.set_root_dir(data_folder); return batch_profile. On None
\* the attribute lookup raises AttributeError.
FactoryBind ==
    /\ gb.pc = "bind"
    /\ gb' = IF gb.found = PyNone
             THEN [gb EXCEPT !.pc = "AttributeError"]
             ELSE [gb EXCEPT !.pc = "returned",
                             !.crawlers[gb.found.value] = set_root_dir(@, DataFolder),
                             !.ret = gb.found]

\* BatchFitOutputInfo.__init__ after the factory returned: the subjects to
\* walk are those of the profile (subjects_selection None: AllSubjects).
InfoInit ==
    /\ gb.pc = "returned"
    /\ LET k == gb.ret.value
           r == get_subjects(gb.crawlers[k], gb.finds[k])
       IN gb' = [gb EXCEPT !.pc = "walk",
                           !.crawlers[k] = r.self,
                           !.subjects = r.ret]

NextBest ==
    \/ Factory /\ UNCHANGED <<vars, bp, disk, obs, sel>> /\ UNCHANGED cvars
    \/ BestIterate /\ UNCHANGED <<vars, bp, disk, obs, sel>> /\ UNCHANGED cvars
    \/ BestReturn /\ UNCHANGED <<vars, bp, disk, obs, sel>> /\ UNCHANGED cvars
    \/ FactoryBind /\ UNCHANGED <<vars, bp, disk, obs, sel>> /\ UNCHANGED cvars
    \/ InfoInit /\ UNCHANGED <<vars, bp, disk, obs, sel>> /\ UNCHANGED cvars

SpecBest == InitBest /\ [][NextBest]_allvars

----------------------------------------------------------------------------
\* SelectedSubjects (batch_utils.py): the selection of subjects by ids,
\* indices and a starting position.

\* The ids of the subjects of a list, in order.
SelIds == <<"s1", "s2", "s3", "s4", "s5", "s6">>

\* The subjects SelIds[a] .. SelIds[b].
Window(a, b) == [k \in 1..(b - a + 1) |-> [subject_id |-> SelIds[a + k - 1]]]

\* The subject lists get_selection is called with: up to MaxSubjects
\* subjects.
SubjectLists ==
    {Window(p[1], p[2]) :
        p \in {q \in (1..MaxSubjects) \X (0..MaxSubjects) : q[2] >= q[1] - 1}}

\* The lists of up to two elements of S, repetitions included.
Picks(S) == {<<>>} \cup {<<a>> : a \in S} \cup {<<a, b>> : a, b \in S}

\* The constructor arguments: None, or a list of indices (one past the
\* longest list included); None, or a list of ids (an id of no subject
\* included); None, an index, an id, or a string that is neither.
IndicesArgs == {PyNone} \cup {PyList(p) : p \in Picks(0..MaxSubjects)}
SubjectIdsArgs ==
    {PyNone} \cup {PyList(p) : p \in Picks({SelIds[k] : k \in 1..MaxSubjects} \cup {"s9"})}
StartFromArgs ==
    {PyNone} \cup {PyInt(k) : k \in 0..MaxSubjects}
             \cup {PyStr(SelIds[k]) : k \in 1..MaxSubjects}
             \cup {PyStr("s9"), PyStr("2")}

\* The Python major versions the module runs on (it imports six).
PythonVersions == {2, 3}

\* An exception raised by a call.
Raise(exception) == [type |-> "raise", value |-> exception]

\* int(v) for an int or a str
IntOf(v) ==
    IF v.type = "int" THEN v
    ELSE CASE v.value = "0" -> PyInt(0)
           [] v.value = "1" -> PyInt(1)
           [] v.value = "2" -> PyInt(2)
           [] v.value = "3" -> PyInt(3)
           [] OTHER -> Raise("ValueError")

\* x in list
In(x, list) == \E j \in DOMAIN list : list[j] = x

\* The elements of a list at the (1-based) positions of keep, in order.
RECURSIVE Keep(_, _)
Keep(list, keep) ==
    IF list = <<>> THEN <<>>
    ELSE Keep(SubSeq(list, 1, Len(list) - 1), keep)
            \o (IF Len(list) \in keep THEN <<list[Len(list)]>> ELSE <<>>)

\* SelectedSubjects._get_starting_pos: an int, None when both loops end
\* without a return, or the exception of int(self.start_from).
get_starting_pos(self, subjects) ==
    LET matches == IF self.start_from.type = "str"
                   THEN {k \in DOMAIN subjects :
                            subjects[k].subject_id = self.start_from.value}
                   ELSE {}
    IN IF self.start_from = PyNone THEN PyInt(0)
       ELSE IF matches # {}
            THEN PyInt((CHOOSE k \in matches : \A j \in matches : k <= j) - 1)
       ELSE IF subjects = <<>> THEN PyNone
       ELSE IF IntOf(self.start_from).type = "raise" THEN IntOf(self.start_from)
       ELSE IF IntOf(self.start_from).value \in 0..(Len(subjects) - 1)
            THEN IntOf(self.start_from)
       ELSE PyNone

\* ind >= starting_pos raises TypeError: starting_pos is None and the
\* interpreter is Python 3.
CompareRaises(starting_pos, py) == starting_pos = PyNone /\ py = 3

\* ind >= starting_pos where it does not raise: on Python 2 every int is
\* above None.
NotBelow(ind, starting_pos) ==
    IF starting_pos = PyNone THEN TRUE ELSE ind >= starting_pos.value

\* get_selection taking the subjects in the order of subject_ids, once for
\* each entry.
get_selection_in_id_order(self, subjects, py) ==
    LET starting_pos == get_starting_pos(self, subjects)
        compared == {k \in DOMAIN subjects : In(k - 1, self.indices.value)}
        by_indices ==
            IF Truth(self.indices)
            THEN IF compared # {} /\ CompareRaises(starting_pos, py)
                 THEN Raise("TypeError")
                 ELSE PyList(Keep(subjects,
                                  {k \in compared : NotBelow(k - 1, starting_pos)}))
            ELSE PyList(subjects)
        picked[j \in 0..Len(self.subject_ids.value)] ==
            IF j = 0 THEN <<>>
            ELSE picked[j - 1] \o
                 Keep(by_indices.value,
                      {k \in DOMAIN by_indices.value :
                          by_indices.value[k].subject_id = self.subject_ids.value[j]})
    IN IF starting_pos.type = "raise" THEN starting_pos
       ELSE IF self.indices = PyNone /\ self.subject_ids = PyNone
            THEN IF starting_pos = PyNone THEN PyList(subjects)
                 ELSE PyList(SubSeq(subjects, starting_pos.value + 1, Len(subjects)))
       ELSE IF by_indices.type = "raise" THEN by_indices
       ELSE IF Truth(self.subject_ids)
            THEN PyList(picked[Len(self.subject_ids.value)])
       ELSE by_indices

\* get_selection with the tail slice taken after the starting position.
get_selection_after_start(self, subjects, py) ==
    LET starting_pos == get_starting_pos(self, subjects)
        compared == {k \in DOMAIN subjects : In(k - 1, self.indices.value)}
        by_indices ==
            IF Truth(self.indices)
            THEN IF compared # {} /\ CompareRaises(starting_pos, py)
                 THEN Raise("TypeError")
                 ELSE PyList(Keep(subjects,
                                  {k \in compared : NotBelow(k - 1, starting_pos)}))
            ELSE PyList(subjects)
    IN IF starting_pos.type = "raise" THEN starting_pos
       ELSE IF self.indices = PyNone /\ self.subject_ids = PyNone
            THEN IF starting_pos = PyNone THEN PyList(subjects)
                 ELSE PyList(SubSeq(subjects, starting_pos.value + 2, Len(subjects)))
       ELSE IF by_indices.type = "raise" THEN by_indices
       ELSE IF Truth(self.subject_ids)
            THEN PyList(Keep(by_indices.value,
                             {k \in DOMAIN by_indices.value :
                                 In(by_indices.value[k].subject_id, self.subject_ids.value)}))
       ELSE by_indices

\* SelectedSubjects.get_selection: the list returned or the exception
\* raised.
get_selection(self, subjects, py) ==
    LET starting_pos == get_starting_pos(self, subjects)
        compared == {k \in DOMAIN subjects : In(k - 1, self.indices.value)}
        by_indices ==
            IF Truth(self.indices)
            THEN IF compared # {} /\ CompareRaises(starting_pos, py)
                 THEN Raise("TypeError")
                 ELSE PyList(Keep(subjects,
                                  {k \in compared : NotBelow(k - 1, starting_pos)}))
            ELSE PyList(subjects)
    IN IF starting_pos.type = "raise" THEN starting_pos
       ELSE IF self.indices = PyNone /\ self.subject_ids = PyNone
            THEN IF starting_pos = PyNone THEN PyList(subjects)
                 ELSE PyList(SubSeq(subjects, starting_pos.value + 1, Len(subjects)))
       ELSE IF by_indices.type = "raise" THEN by_indices
       ELSE IF Truth(self.subject_ids)
            THEN PyList(Keep(by_indices.value,
                             {k \in DOMAIN by_indices.value :
                                 In(by_indices.value[k].subject_id, self.subject_ids.value)}))
       ELSE by_indices

\* SelectedSubjects(subject_ids, indices, start_from) and the list its
\* get_selection is to be called with.
InitSelect ==
    /\ \E subjects \in SubjectLists, subject_ids \in SubjectIdsArgs,
          indices \in IndicesArgs, start_from \in StartFromArgs :
         sel = [subject_ids |-> subject_ids,
                indices |-> indices,
                start_from |-> start_from,
                subjects |-> subjects,
                pc |-> "new",
                starting_pos |-> PyNone,
                ret |-> PyNone]
    /\ IdleVoxelRange /\ IdleProfile /\ IdleBest /\ IdleOthers

\* get_selection(subjects) returns or raises.
GetSelection ==
    /\ sel.pc = "new"
    /\ \E py \in PythonVersions :
         LET pos == get_starting_pos(sel, sel.subjects)
             r == get_selection(sel, sel.subjects, py)
         IN sel' = [sel EXCEPT !.pc = IF r.type = "raise" THEN "raised" ELSE "returned",
                               !.starting_pos = pos,
                               !.ret = r]

NextSelect ==
    \/ GetSelection /\ UNCHANGED <<vars, bp, disk, obs, gb>> /\ UNCHANGED cvars

SpecSelect == InitSelect /\ [][NextSelect]_allvars

----------------------------------------------------------------------------
\* BatchFitOutputInfo._get_single_model_names (batch_utils.py): the leaf
\* model names of a list of model names.

\* The names of the registered models, in a fixed order.
ModelNameOrder == <<"A", "B", "C", "D">>
ModelNames == {ModelNameOrder[k] : k \in DOMAIN ModelNameOrder}

\* The models the registry may hold as cascades; the others are single
\* models.
CascadeNames == {"A", "C"}

\* get_model(name): a single model, or a cascade model with the list
\* get_model_names() returns.
SingleModel == [type |-> "model"]
CascadeModel(model_names) == [type |-> "cascade", value |-> model_names]

Registries ==
    {reg \in [ModelNames -> {SingleModel} \cup {CascadeModel(l) : l \in Picks(ModelNames)}] :
        \A n \in ModelNames \ CascadeNames : reg[n] = SingleModel}

\* The elements of a list.
Elements(list) == {list[k] : k \in DOMAIN list}

\* The names of a set as a list.
ListOf(names) == SelectSeq(ModelNameOrder, LAMBDA n : n \in names)

\* A call of get_names(current_names), at position pos of its loop, for the
\* cascade model_name (None in the outermost call).
Frame(current_names, model_name) ==
    [current_names |-> current_names,
     pos |-> 0,
     single_model_names |-> <<>>,
     model_name |-> model_name]

\* lookup_cache = {}
EmptyCache == [n \in ModelNames |-> PyNone]

InitCascade ==
    /\ \E registry \in Registries, model_names \in Picks(ModelNames) :
         cr = [registry |-> registry,
               model_names |-> model_names,
               call |-> "first",
               pc |-> "new",
               stack |-> <<>>,
               lookup_cache |-> EmptyCache,
               lookups |-> [n \in ModelNames |-> 0],
               ret |-> PyNone,
               first |-> PyNone]
    /\ IdleVoxelRange /\ IdleProfile /\ IdleSelect /\ IdleBest
    /\ IdleWalk /\ IdleSubject /\ IdleConcurrent

\* The frame on top of the stack and the name its loop is at.
Top == cr.stack[Len(cr.stack)]
AtName == Top.current_names[Top.pos + 1]
InLoop == cr.pc = "running" /\ Top.pos < Len(Top.current_names)

\* single_model_names.extend(names) and the next iteration, in the top
\* frame of stack.
Extended(stack, names) ==
    [stack EXCEPT ![Len(stack)].single_model_names = @ \o names,
                  ![Len(stack)].pos = @ + 1]

\* _get_single_model_names(model_names) is called: an empty lookup_cache
\* and the outermost get_names(model_names).
CallSingleModelNames ==
    /\ cr.pc = "new"
    /\ cr' = [cr EXCEPT !.pc = "running",
                        !.lookup_cache = EmptyCache,
                        !.lookups = [n \in ModelNames |-> 0],
                        !.stack = <<Frame(cr.model_names, PyNone)>>]

\* model_name is in lookup_cache, and the loop ends with its names.
LookupCachedEndsLoop ==
    /\ InLoop
    /\ cr.lookup_cache[AtName] # PyNone
    /\ cr' = [cr EXCEPT
                 !.stack[Len(cr.stack)].single_model_names =
                     @ \o cr.lookup_cache[AtName].value,
                 !.stack[Len(cr.stack)].pos = Len(Top.current_names)]

\* model_name is in lookup_cache.
LookupCached ==
    /\ InLoop
    /\ cr.lookup_cache[AtName] # PyNone
    /\ cr' = [cr EXCEPT !.stack = Extended(@, cr.lookup_cache[AtName].value)]

\* model_name is not in lookup_cache and get_model gives a single model.
LookupSingle ==
    /\ InLoop
    /\ cr.lookup_cache[AtName] = PyNone
    /\ cr.registry[AtName].type = "model"
    /\ cr' = [cr EXCEPT !.lookups[AtName] = @ + 1,
                        !.lookup_cache[AtName] = PyList(<<AtName>>),
                        !.stack = Extended(@, <<AtName>>)]

\* EnterCascade storing the name in lookup_cache before its sub-models are
\* resolved.
EnterCascadeMemoizesFirst ==
    /\ InLoop
    /\ cr.lookup_cache[AtName] = PyNone
    /\ cr.registry[AtName].type = "cascade"
    /\ Len(cr.stack) < MaxDepth
    /\ cr' = [cr EXCEPT !.lookups[AtName] = @ + 1,
                        !.lookup_cache[AtName] = PyList(<<>>),
                        !.stack = Append(@, Frame(cr.registry[AtName].value, AtName))]

\* model_name is not in lookup_cache and get_model gives a cascade:
\* get_names(model.get_model_names()) is called.
EnterCascade ==
    /\ InLoop
    /\ cr.lookup_cache[AtName] = PyNone
    /\ cr.registry[AtName].type = "cascade"
    /\ Len(cr.stack) < MaxDepth
    /\ cr' = [cr EXCEPT !.lookups[AtName] = @ + 1,
                        !.stack = Append(@, Frame(cr.registry[AtName].value, AtName))]

\* The same at the interpreter's recursion limit: the call raises.
RecursionLimit ==
    /\ InLoop
    /\ cr.lookup_cache[AtName] = PyNone
    /\ cr.registry[AtName].type = "cascade"
    /\ Len(cr.stack) = MaxDepth
    /\ cr' = [cr EXCEPT !.lookups[AtName] = @ + 1,
                        !.pc = "RecursionError"]

\* An inner get_names returns and the caller does not extend its list.
ReturnToCallerDropsNames ==
    /\ cr.pc = "running"
    /\ Top.pos = Len(Top.current_names)
    /\ Len(cr.stack) > 1
    /\ cr' = [cr EXCEPT
                !.lookup_cache[Top.model_name] = PyList(Top.single_model_names),
                !.stack = Extended(SubSeq(@, 1, Len(@) - 1), <<>>)]

\* An inner get_names returns: lookup_cache[model_name] = resolved_names,
\* and the caller extends its list with it.
ReturnToCaller ==
    /\ cr.pc = "running"
    /\ Top.pos = Len(Top.current_names)
    /\ Len(cr.stack) > 1
    /\ cr' = [cr EXCEPT
                !.lookup_cache[Top.model_name] = PyList(Top.single_model_names),
                !.stack = Extended(SubSeq(@, 1, Len(@) - 1), Top.single_model_names)]

\* The outermost get_names returns: list(set(...)).
ReturnResult ==
    /\ cr.pc = "running"
    /\ Top.pos = Len(Top.current_names)
    /\ Len(cr.stack) = 1
    /\ cr' = [cr EXCEPT !.pc = "returned",
                        !.stack = <<>>,
                        !.ret = Elements(Top.single_model_names)]

\* The registry with model n registered anew as a single model or as a
\* cascade of D alone.
Reregistered(registry) ==
    {[registry EXCEPT ![n] = m] :
        n \in CascadeNames, m \in {SingleModel, CascadeModel(<<"D">>)}}

\* A second call keeping the lookup_cache of the first.
CallAgainKeepsCache ==
    /\ cr.pc = "returned"
    /\ cr.call = "first"
    /\ \E again \in {[registry |-> reg, model_names |-> cr.model_names] :
                        reg \in Reregistered(cr.registry) \cup {cr.registry}}
                    \cup {[registry |-> cr.registry, model_names |-> ListOf(cr.ret)]}
                    \cup {[registry |-> cr.registry, model_names |-> names] :
                             names \in {n \in Picks(ModelNames) :
                                           Elements(n) = Elements(cr.model_names)}} :
         cr' = [cr EXCEPT !.registry = again.registry,
                          !.model_names = again.model_names,
                          !.call = "second",
                          !.pc = "running",
                          !.lookups = [n \in ModelNames |-> 0],
                          !.stack = <<Frame(again.model_names, PyNone)>>,
                          !.ret = PyNone,
                          !.first = [ret |-> cr.ret, registry |-> cr.registry,
                                     model_names |-> cr.model_names]]

\* After the first call has returned, a second call is made: with the same
\* names, the registry as it was or with a model registered anew, or with
\* the names the first call returned, or with the same names in another
\* order or number.
CallAgain ==
    /\ cr.pc = "returned"
    /\ cr.call = "first"
    /\ \E again \in {[registry |-> reg, model_names |-> cr.model_names] :
                        reg \in Reregistered(cr.registry) \cup {cr.registry}}
                    \cup {[registry |-> cr.registry, model_names |-> ListOf(cr.ret)]}
                    \cup {[registry |-> cr.registry, model_names |-> names] :
                             names \in {n \in Picks(ModelNames) :
                                           Elements(n) = Elements(cr.model_names)}} :
         cr' = [cr EXCEPT !.registry = again.registry,
                          !.model_names = again.model_names,
                          !.call = "second",
                          !.pc = "new",
                          !.ret = PyNone,
                          !.first = [ret |-> cr.ret, registry |-> cr.registry,
                                     model_names |-> cr.model_names]]

NextCascade ==
    \/ CallSingleModelNames /\ UNCHANGED <<vars, bvars, ow, si, cc>>
    \/ LookupCached /\ UNCHANGED <<vars, bvars, ow, si, cc>>
    \/ LookupSingle /\ UNCHANGED <<vars, bvars, ow, si, cc>>
    \/ EnterCascade /\ UNCHANGED <<vars, bvars, ow, si, cc>>
    \/ RecursionLimit /\ UNCHANGED <<vars, bvars, ow, si, cc>>
    \/ ReturnToCaller /\ UNCHANGED <<vars, bvars, ow, si, cc>>
    \/ ReturnResult /\ UNCHANGED <<vars, bvars, ow, si, cc>>
    \/ CallAgain /\ UNCHANGED <<vars, bvars, ow, si, cc>>

SpecCascade == InitCascade /\ [][NextCascade]_allvars

\* The interpreter keeps executing a call that can take a step.
SpecCascadeFair == SpecCascade /\ WF_allvars(NextCascade)

----------------------------------------------------------------------------
\* BatchFitOutputInfo, run_function_on_batch_fit_output and
\* collect_batch_fit_output (batch_utils.py): the walk over the output
\* directories of the subjects and their collection.

\* The subject lists the batch profile discovers.
WalkSubjectLists == {<<>>, <<"s1">>, <<"s1", "s2">>, <<"s2", "s1">>}
WalkSubjectIds == {"s1", "s2"}

\* The lists list(set(...)) of resolved model names: a set in any order.
WalkModelLists == {<<>>, <<"M1">>, <<"M2">>, <<"M1", "M2">>, <<"M2", "M1">>}
WalkModelNames == {"M1", "M2"}

\* subject_info.output_dir, the output_path of a model, and the
\* destination of its collection under the output_dir argument.
SubjectOutputDir(subject_id) == <<"data", subject_id, "output">>
SourcePath(subject_id, model_name) ==
    OsPathJoin(SubjectOutputDir(subject_id), model_name)
CollectDir == <<"collected">>
DestDir(subject_id) == OsPathJoin(CollectDir, subject_id)
DestPath(subject_id, model_name) == OsPathJoin(DestDir(subject_id), model_name)

\* The entries of the file system.
Absent == [kind |-> "absent"]
RegularFile == [kind |-> "file"]
Directory(content) == [kind |-> "dir", content |-> content]
Symlink(target) == [kind |-> "symlink", target |-> target]

\* The maps of a fitted model, and what an older collection left.
MapsOf(subject_id, model_name) == <<subject_id, model_name>>
Stale == <<"stale">>

Entry(fs, path) == IF path \in DOMAIN fs THEN fs[path] ELSE Absent

\* os.path.islink, os.path.exists and os.path.isdir (the last two follow a
\* symlink)
IsLink(fs, path) == Entry(fs, path).kind = "symlink"
PathExists(fs, path) ==
    IF IsLink(fs, path)
    THEN Entry(fs, Entry(fs, path).target).kind \in {"file", "dir"}
    ELSE Entry(fs, path).kind \in {"file", "dir"}
IsDir(fs, path) ==
    IF IsLink(fs, path)
    THEN Entry(fs, Entry(fs, path).target).kind = "dir"
    ELSE Entry(fs, path).kind = "dir"

WalkPaths ==
    {SourcePath(s, m) : s \in WalkSubjectIds, m \in WalkModelNames}
        \cup {DestPath(s, m) : s \in WalkSubjectIds, m \in WalkModelNames}
        \cup {DestDir(s) : s \in WalkSubjectIds}

\* What may be at one destination before the collection: a file, a
\* directory of an older collection, a symlink to an output directory, or a
\* symlink to nothing.
OldEntries(subject_id, model_name) ==
    {RegularFile, Directory(Stale),
     Symlink(SourcePath(subject_id, model_name)), Symlink(<<"gone">>)}

\* The file systems the walk starts on: the output directories in outputs
\* exist, and at most one destination holds an old entry.
FileSystem(outputs, old) ==
    [path \in WalkPaths |->
        IF \E s \in WalkSubjectIds, m \in WalkModelNames :
              path = SourcePath(s, m) /\ <<s, m>> \in outputs
        THEN Directory(MapsOf(path[2], path[4]))
        ELSE IF old # PyNone /\ path = DestPath(old.subject_id, old.model_name)
        THEN old.entry
        ELSE IF old # PyNone /\ path = DestDir(old.subject_id)
        THEN Directory(<<>>)
        ELSE Absent]

OldChoices ==
    {PyNone} \cup UNION {{[subject_id |-> p[1], model_name |-> p[2], entry |-> e] :
                               e \in OldEntries(p[1], p[2])} :
                            p \in WalkSubjectIds \X WalkModelNames}

\* The func argument: a function of the caller without effect on the
\* file system, or copy_function with the symlink and move arguments of
\* collect_batch_fit_output.
WalkFuncs ==
    {[name |-> "user", symlink |-> FALSE, move |-> FALSE]}
        \cup {[name |-> "copy_function", symlink |-> sl, move |-> mv] :
                 sl \in BOOLEAN, mv \in BOOLEAN}

\* The subjects_selection argument: None, or a selection by id.
WalkSelections ==
    {PyNone, [subject_ids |-> PyList(<<"s2">>), indices |-> PyNone,
              start_from |-> PyNone]}

\* The SubjectInfo of a discovered subject.
WalkSubject(subject_id) ==
    [subject_id |-> subject_id, output_dir |-> SubjectOutputDir(subject_id)]

\* BatchFitSubjectOutputInfo(subject_info, output_path, model_name)
BatchFitSubjectOutputInfo(subject_info, output_path, model_name) ==
    [subject_info |-> subject_info,
     subject_id |-> subject_info.subject_id,
     output_path |-> output_path,
     model_name |-> model_name]

\* BatchFitOutputInfo.__init__: the subjects to walk.
SelectedOf(subjects_selection, subjects) ==
    IF subjects_selection = PyNone THEN subjects
    ELSE get_selection(subjects_selection, subjects, 3).value

\* copy_function without the removal of what is at the destination: the
\* move, symlink or copy onto an existing path raises.
copy_function_keeps_old(fs, info, symlink, move) ==
    LET dir == DestDir(info.subject_id)
        subject_out == DestPath(info.subject_id, info.model_name)
        made == IF ~PathExists(fs, dir) THEN [fs EXCEPT ![dir] = Directory(<<>>)] ELSE fs
        fails == PathExists(made, subject_out) \/ IsLink(made, subject_out)
    IN IF fails THEN [fs |-> made, raised |-> Raise("OSError")]
       ELSE IF move
       THEN [fs |-> [made EXCEPT ![subject_out] = made[info.output_path],
                                 ![info.output_path] = Absent],
             raised |-> PyNone]
       ELSE IF symlink
       THEN [fs |-> [made EXCEPT ![subject_out] = Symlink(info.output_path)],
             raised |-> PyNone]
       ELSE [fs |-> [made EXCEPT
                        ![subject_out] = Directory(made[info.output_path].content)],
             raised |-> PyNone]

\* copy_function with symlink taking precedence over move.
copy_function_symlink_first(fs, info, symlink, move) ==
    LET dir == DestDir(info.subject_id)
        subject_out == DestPath(info.subject_id, info.model_name)
        made == IF ~PathExists(fs, dir) THEN [fs EXCEPT ![dir] = Directory(<<>>)] ELSE fs
        remove == PathExists(made, subject_out) \/ IsLink(made, subject_out)
        fails == remove /\ ~IsLink(made, subject_out) /\ ~IsDir(made, subject_out)
        removed == IF remove THEN [made EXCEPT ![subject_out] = Absent] ELSE made
    IN IF fails THEN [fs |-> made, raised |-> Raise("OSError")]
       ELSE IF symlink
       THEN [fs |-> [removed EXCEPT ![subject_out] = Symlink(info.output_path)],
             raised |-> PyNone]
       ELSE IF move
       THEN [fs |-> [removed EXCEPT ![subject_out] = removed[info.output_path],
                                    ![info.output_path] = Absent],
             raised |-> PyNone]
       ELSE [fs |-> [removed EXCEPT
                        ![subject_out] = Directory(removed[info.output_path].content)],
             raised |-> PyNone]

\* copy_function of collect_batch_fit_output: the file system after it and
\* the exception it raised, if any. shutil.rmtree raises on a path that is
\* no directory.
copy_function(fs, info, symlink, move) ==
    LET dir == DestDir(info.subject_id)
        subject_out == DestPath(info.subject_id, info.model_name)
        made == IF ~PathExists(fs, dir) THEN [fs EXCEPT ![dir] = Directory(<<>>)] ELSE fs
        remove == PathExists(made, subject_out) \/ IsLink(made, subject_out)
        fails == remove /\ ~IsLink(made, subject_out) /\ ~IsDir(made, subject_out)
        removed == IF remove THEN [made EXCEPT ![subject_out] = Absent] ELSE made
    IN IF fails THEN [fs |-> made, raised |-> Raise("OSError")]
       ELSE IF move
       THEN [fs |-> [removed EXCEPT ![subject_out] = removed[info.output_path],
                                    ![info.output_path] = Absent],
             raised |-> PyNone]
       ELSE IF symlink
       THEN [fs |-> [removed EXCEPT ![subject_out] = Symlink(info.output_path)],
             raised |-> PyNone]
       ELSE [fs |-> [removed EXCEPT
                        ![subject_out] = Directory(removed[info.output_path].content)],
             raised |-> PyNone]

\* results[subject_id][model_name] = value on a mapping that replaces the
\* subject's mapping.
AutoDictSetReplaces(results, subject_id, model_name, value) ==
    [s \in DOMAIN results \cup {subject_id} |->
        IF s = subject_id
        THEN [m \in {model_name} |-> value]
        ELSE results[s]]

\* results[subject_id][model_name] = value on an AutoDict
AutoDictSet(results, subject_id, model_name, value) ==
    [s \in DOMAIN results \cup {subject_id} |->
        IF s = subject_id
        THEN [m \in (IF s \in DOMAIN results THEN DOMAIN results[s] ELSE {})
                        \cup {model_name} |->
                 IF m = model_name THEN value ELSE results[s][m]]
        ELSE results[s]]

\* The value the caller's function returns for an output.
UserValue(info) == <<"value of", info.subject_id, info.model_name>>

InitWalk ==
    /\ \E discovered \in WalkSubjectLists, subjects_selection \in WalkSelections,
          model_names \in WalkModelLists, func \in WalkFuncs,
          outputs \in SUBSET (WalkSubjectIds \X WalkModelNames), old \in OldChoices :
         ow = [discovered |-> [k \in DOMAIN discovered |-> WalkSubject(discovered[k])],
               subjects_selection |-> subjects_selection,
               resolved |-> model_names,
               func |-> func,
               fs |-> FileSystem(outputs, old),
               start |-> FileSystem(outputs, old),
               pc |-> "new",
               subjects |-> <<>>,
               model_names |-> PyNone,
               resolutions |-> 0,
               subject |-> 0,
               model |-> 0,
               yielded |-> <<>>,
               applied |-> <<>>,
               results |-> <<>>,
               ret |-> PyNone,
               run |-> "first",
               first_pc |-> PyNone]
    /\ IdleVoxelRange /\ IdleProfile /\ IdleSelect /\ IdleBest
    /\ IdleCascade /\ IdleSubject /\ IdleConcurrent

\* run_function_on_batch_fit_output up to the first step of the generator:
\* BatchFitOutputInfo(...) selects the subjects, and the generator resolves
\* the model names.
StartWalk ==
    /\ ow.pc = "new"
    /\ ow' = [ow EXCEPT !.pc = "walk",
                        !.subjects = SelectedOf(ow.subjects_selection, ow.discovered),
                        !.model_names = PyList(ow.resolved),
                        !.resolutions = @ + 1,
                        !.subject = 1,
                        !.model = 1]

\* The pair the two loops of the generator are at, and the loops' next
\* position.
AtPair ==
    /\ ow.pc = "walk"
    /\ ow.subject <= Len(ow.subjects)
    /\ ow.model <= Len(ow.model_names.value)
WalkSubjectInfo == ow.subjects[ow.subject]
WalkModelName == ow.model_names.value[ow.model]
WalkOutputPath == OsPathJoin(WalkSubjectInfo.output_dir, WalkModelName)

\* A step of the generator yielding whether or not the directory exists.
CheckPairWithoutIsdir ==
    /\ AtPair
    /\ ow' = [ow EXCEPT
                 !.pc = "func",
                 !.yielded = Append(@, BatchFitSubjectOutputInfo(
                                           WalkSubjectInfo, WalkOutputPath, WalkModelName))]

\* A step of the generator: os.path.isdir(output_path), and the yield of
\* the descriptor if it is a directory.
CheckPair ==
    /\ AtPair
    /\ ow' = IF IsDir(ow.fs, WalkOutputPath)
             THEN [ow EXCEPT
                     !.pc = "func",
                     !.yielded = Append(@, BatchFitSubjectOutputInfo(
                                               WalkSubjectInfo, WalkOutputPath,
                                               WalkModelName))]
             ELSE [ow EXCEPT !.model = @ + 1]

\* The inner loop of the generator ends: the next subject.
NextSubject ==
    /\ ow.pc = "walk"
    /\ ow.subject <= Len(ow.subjects)
    /\ ow.model > Len(ow.model_names.value)
    /\ ow' = [ow EXCEPT !.subject = @ + 1, !.model = 1]

\* The body of the loop of run_function_on_batch_fit_output storing the
\* value in a mapping that replaces the subject's.
ApplyFuncReplaces ==
    /\ ow.pc = "func"
    /\ LET info == ow.yielded[Len(ow.yielded)]
           done == IF ow.func.name = "user"
                   THEN [fs |-> ow.fs, raised |-> PyNone]
                   ELSE copy_function(ow.fs, info, ow.func.symlink, ow.func.move)
           value == IF ow.func.name = "user" THEN UserValue(info) ELSE PyNone
       IN ow' = IF done.raised # PyNone
                THEN [ow EXCEPT !.pc = "raised", !.fs = done.fs,
                                !.applied = Append(@, info), !.ret = done.raised]
                ELSE [ow EXCEPT !.pc = "walk", !.fs = done.fs,
                                !.applied = Append(@, info),
                                !.results = AutoDictSetReplaces(@, info.subject_id,
                                                                info.model_name, value),
                                !.model = @ + 1]

\* The body of the loop of run_function_on_batch_fit_output:
\* results[subject.subject_id][subject.model_name] = func(subject). An
\* exception of func ends the call.
ApplyFunc ==
    /\ ow.pc = "func"
    /\ LET info == ow.yielded[Len(ow.yielded)]
           done == IF ow.func.name = "user"
                   THEN [fs |-> ow.fs, raised |-> PyNone]
                   ELSE copy_function(ow.fs, info, ow.func.symlink, ow.func.move)
           value == IF ow.func.name = "user" THEN UserValue(info) ELSE PyNone
       IN ow' = IF done.raised # PyNone
                THEN [ow EXCEPT !.pc = "raised", !.fs = done.fs,
                                !.applied = Append(@, info), !.ret = done.raised]
                ELSE [ow EXCEPT !.pc = "walk", !.fs = done.fs,
                                !.applied = Append(@, info),
                                !.results = AutoDictSet(@, info.subject_id,
                                                        info.model_name, value),
                                !.model = @ + 1]

\* The generator is exhausted: return results.to_normal_dict().
FinishWalk ==
    /\ ow.pc = "walk"
    /\ ow.subject > Len(ow.subjects)
    /\ ow' = [ow EXCEPT !.pc = "done", !.ret = PyList(ow.results)]

\* collect_batch_fit_output is called again with the same arguments, on the
\* file system the first call left.
CollectAgain ==
    /\ ow.pc \in {"done", "raised"}
    /\ ow.run = "first"
    /\ ow.func.name = "copy_function"
    /\ ow' = [ow EXCEPT !.run = "second",
                        !.first_pc = ow.pc,
                        !.start = ow.fs,
                        !.pc = "new",
                        !.subjects = <<>>,
                        !.model_names = PyNone,
                        !.resolutions = 0,
                        !.subject = 0,
                        !.model = 0,
                        !.yielded = <<>>,
                        !.applied = <<>>,
                        !.results = <<>>,
                        !.ret = PyNone]

NextWalk ==
    \/ StartWalk /\ UNCHANGED <<vars, bvars, cr, si, cc>>
    \/ CheckPair /\ UNCHANGED <<vars, bvars, cr, si, cc>>
    \/ NextSubject /\ UNCHANGED <<vars, bvars, cr, si, cc>>
    \/ ApplyFunc /\ UNCHANGED <<vars, bvars, cr, si, cc>>
    \/ FinishWalk /\ UNCHANGED <<vars, bvars, cr, si, cc>>
    \/ CollectAgain /\ UNCHANGED <<vars, bvars, cr, si, cc>>

SpecWalk == InitWalk /\ [][NextWalk]_allvars

----------------------------------------------------------------------------
\* SimpleSubjectInfo (batch_utils.py): the mask of a subject.

\* The output_dir and mask_fname arguments of SimpleSubjectInfo.
SubjectOutputDirs ==
    {<<"root", "subj1", "output">>, <<"root", "subj1", "output", "run1">>,
     <<"root", "subj2", "output">>}
SubjectMaskArgs ==
    {PyNone, PyPath(<<"root", "subj1", "brain_mask.nii.gz">>),
     PyPath(<<"root", "subj1", "output", "auto_generated_mask.nii.gz">>)}

\* create_write_median_otsu_brain_mask(dwi_fname, protocol, mask_fname): the
\* files after it has written the mask.
CreateWriteMask(files, mask_fname) == files \cup {mask_fname}

\* get_mask_filename creating the mask on every call.
get_mask_filename_always_creates(self, files) ==
    [ret |-> self.mask_fname,
     files |-> CreateWriteMask(files, self.mask_fname),
     created |-> TRUE]

\* SimpleSubjectInfo.get_mask_filename: the value returned, the files after
\* the call, and whether the mask was created in it.
get_mask_filename(self, files) ==
    IF self.mask_fname \notin files
    THEN [ret |-> self.mask_fname,
          files |-> CreateWriteMask(files, self.mask_fname),
          created |-> TRUE]
    ELSE [ret |-> self.mask_fname, files |-> files, created |-> FALSE]

\* The record of a call on the subject: the method, the mask file name it
\* used, whether the file was there when it was called and whether it
\* created the mask.
SubjectCall(op, ret, isfile, created) ==
    [op |-> op, ret |-> ret, isfile |-> isfile, created |-> created]

InitSubject ==
    /\ \E subject_id \in {"subj1", "subj2"}, mask_fname \in SubjectMaskArgs,
          output_dir \in SubjectOutputDirs,
          files \in SUBSET (SubjectMaskArgs \ {PyNone}) :
         si = [self |-> SimpleSubjectInfo(subject_id, mask_fname, output_dir),
               mask_arg |-> mask_fname,
               files |-> files,
               start |-> files,
               created |-> 0,
               calls |-> <<>>]
    /\ IdleVoxelRange /\ IdleProfile /\ IdleSelect /\ IdleBest
    /\ IdleCascade /\ IdleWalk /\ IdleConcurrent

\* subject_info.get_mask_filename()
GetMaskFilename ==
    /\ si # PyNone
    /\ Len(si.calls) < MaxOps
    /\ LET r == get_mask_filename(si.self, si.files) IN
          si' = [si EXCEPT
                    !.files = r.files,
                    !.created = @ + (IF r.created THEN 1 ELSE 0),
                    !.calls = Append(@, SubjectCall("get_mask_filename", r.ret,
                                                    si.self.mask_fname \in si.files,
                                                    r.created))]

\* subject_info.get_problem_data(): the protocol, the mask file name, and
\* load_problem_data on them.
GetProblemData ==
    /\ si # PyNone
    /\ Len(si.calls) < MaxOps
    /\ LET r == get_mask_filename(si.self, si.files) IN
          si' = [si EXCEPT
                    !.files = r.files,
                    !.created = @ + (IF r.created THEN 1 ELSE 0),
                    !.calls = Append(@, SubjectCall("get_problem_data", r.ret,
                                                    si.self.mask_fname \in si.files,
                                                    r.created))]

NextSubjectInfo ==
    \/ GetMaskFilename /\ UNCHANGED <<vars, bvars, cr, ow, cc>>
    \/ GetProblemData /\ UNCHANGED <<vars, bvars, cr, ow, cc>>

SpecSubject == InitSubject /\ [][NextSubjectInfo]_allvars

----------------------------------------------------------------------------
\* Two invocations of VoxelRange.run at the same time, on the same model,
\* data and output path (VoxelRange.py). The steps of the two interleave;
\* the chunks directory is the one state they share.

Invocations == {1, 2}
Other(p) == 3 - p

InitConcurrent ==
    /\ \E m \in Masks, n \in 1..MaxNmrVoxels, recalc \in [Invocations -> BOOLEAN] :
         cc = [mask |-> m,
               nmr_voxels |-> n,
               recalculate |-> recalc,
               pc |-> [p \in Invocations |-> "start"],
               ci |-> [p \in Invocations |-> 0],
               chunk_mask |-> [p \in Invocations |-> None],
               chunks_exists |-> FALSE,
               slice_dirs |-> <<>>,
               returned |-> [p \in Invocations |-> None],
               removed |-> {}]
    /\ IdleVoxelRange /\ IdleProfile /\ IdleSelect /\ IdleBest
    /\ IdleCascade /\ IdleWalk /\ IdleSubject

\* The chunks of the mask, the nmr_voxels of the strategy being
\* cc.nmr_voxels, and the slice directory invocation p is at.
ChunksOf(m, n) ==
    [k \in 1..Len(Range(0, CountNonzero(m), n)) |->
        <<Range(0, CountNonzero(m), n)[k],
          Min(CountNonzero(m), Range(0, CountNonzero(m), n)[k] + n)>>]
SliceDirOf(p) ==
    SliceDirName(ChunksOf(cc.mask, cc.nmr_voxels)[cc.ci[p]][1],
                 ChunksOf(cc.mask, cc.nmr_voxels)[cc.ci[p]][2])

\* The removals of a directory by p that happen while the other invocation
\* is in worker.process.
Removal(p, op) ==
    IF cc.pc[Other(p)] = "process" THEN cc.removed \cup {op} ELSE cc.removed

\* run of p, up to the for loop: _prepare_chunk_dir.
ConcurrentPrepare(p) ==
    /\ cc.pc[p] = "start"
    /\ cc' = [cc EXCEPT
                 !.slice_dirs = IF cc.chunks_exists
                                THEN PrepareChunkDir(cc.slice_dirs, cc.recalculate[p])
                                ELSE <<>>,
                 !.chunks_exists = TRUE,
                 !.removed = IF cc.chunks_exists /\ cc.recalculate[p]
                             THEN Removal(p, "_prepare_chunk_dir") ELSE @,
                 !.pc[p] = "loop"]

\* One step of the for loop of p.
ConcurrentNextChunk(p) ==
    /\ cc.pc[p] = "loop"
    /\ LET chunks == ChunksOf(cc.mask, cc.nmr_voxels) IN
          cc' = IF cc.ci[p] < Len(chunks)
                THEN [cc EXCEPT
                         !.ci[p] = @ + 1,
                         !.chunk_mask[p] = ChunkMask(cc.mask, chunks[cc.ci[p] + 1][1],
                                                     chunks[cc.ci[p] + 1][2]),
                         !.pc[p] = IF chunks[cc.ci[p] + 1][2] > chunks[cc.ci[p] + 1][1]
                                   THEN "slice" ELSE "loop"]
                ELSE [cc EXCEPT !.pc[p] = "combine"]

\* _run_on_slice of p up to the branch on worker.output_exists.
ConcurrentRunOnSlice(p) ==
    /\ cc.pc[p] = "slice"
    /\ LET dirs == IF cc.recalculate[p] /\ SliceDirOf(p) \in DOMAIN cc.slice_dirs
                   THEN [d \in DOMAIN cc.slice_dirs \ {SliceDirOf(p)} |-> cc.slice_dirs[d]]
                   ELSE cc.slice_dirs
       IN cc' = [cc EXCEPT
                    !.slice_dirs = dirs,
                    !.pc[p] = IF OutputExists(dirs, SliceDirOf(p)) THEN "loop" ELSE "process"]

\* worker.process of p returns, then the chunk mask is written: the
\* directories are made where they are missing.
ConcurrentProcessReturns(p) ==
    /\ cc.pc[p] = "process"
    /\ cc' = [cc EXCEPT
                 !.slice_dirs = [d \in DOMAIN cc.slice_dirs \cup {SliceDirOf(p)} |->
                                    IF d = SliceDirOf(p)
                                    THEN [out |-> cc.chunk_mask[p],
                                          mask_file |-> cc.chunk_mask[p]]
                                    ELSE cc.slice_dirs[d]],
                 !.chunks_exists = TRUE,
                 !.pc[p] = "loop"]

\* worker.process of p raises: the exception leaves run.
ConcurrentProcessRaises(p) ==
    /\ cc.pc[p] = "process"
    /\ cc' = [cc EXCEPT !.pc[p] = "aborted"]

\* worker.combine of p returns.
ConcurrentCombine(p) ==
    /\ cc.pc[p] = "combine"
    /\ cc' = [cc EXCEPT !.returned[p] = Combine(cc.slice_dirs), !.pc[p] = "rmtree"]

\* shutil.rmtree(chunks_dir) of p, which raises if the directory is gone;
\* return return_data
ConcurrentRmtree(p) ==
    /\ cc.pc[p] = "rmtree"
    /\ cc' = IF cc.chunks_exists
             THEN [cc EXCEPT !.chunks_exists = FALSE,
                             !.slice_dirs = <<>>,
                             !.removed = Removal(p, "rmtree"),
                             !.pc[p] = "done"]
             ELSE [cc EXCEPT !.pc[p] = "OSError"]

NextConcurrent ==
    \/ (\E p \in Invocations : ConcurrentPrepare(p)) /\ UNCHANGED <<vars, bvars, cr, ow, si>>
    \/ (\E p \in Invocations : ConcurrentNextChunk(p)) /\ UNCHANGED <<vars, bvars, cr, ow, si>>
    \/ (\E p \in Invocations : ConcurrentRunOnSlice(p)) /\ UNCHANGED <<vars, bvars, cr, ow, si>>
    \/ (\E p \in Invocations : ConcurrentProcessReturns(p))
           /\ UNCHANGED <<vars, bvars, cr, ow, si>>
    \/ (\E p \in Invocations : ConcurrentProcessRaises(p))
           /\ UNCHANGED <<vars, bvars, cr, ow, si>>
    \/ (\E p \in Invocations : ConcurrentCombine(p)) /\ UNCHANGED <<vars, bvars, cr, ow, si>>
    \/ (\E p \in Invocations : ConcurrentRmtree(p)) /\ UNCHANGED <<vars, bvars, cr, ow, si>>

SpecConcurrent == InitConcurrent /\ [][NextConcurrent]_allvars

----------------------------------------------------------------------------
\* Notions the properties below are stated in.

TotalActive == CountNonzero(mask)

\* ceil(a / b) for a >= 0, b > 0
CeilDiv(a, b) == (a + b - 1) \div b

\* The partition of [0, TotalActive) into ranges of nmr_voxels, stated
\* without the generator.
Partition ==
    {<<k * nmr_voxels, Min(TotalActive, (k + 1) * nmr_voxels)>> :
        k \in 0..(CeilDiv(TotalActive, nmr_voxels) - 1)}

Yielded == {Chunks[i] : i \in DOMAIN Chunks}

\* The calls of run r, as indices into calls.
CallsIn(r, op) == {i \in DOMAIN calls : calls[i].run = r /\ calls[i].op = op}
ChunkOf(i) == <<calls[i].start, calls[i].end>>
Started(r) == CallsIn(r, "run") # {}
Recalc(r) == \E i \in CallsIn(r, "run") : calls[i].ok
Skipped(r) == {ChunkOf(i) : i \in {j \in CallsIn(r, "output_exists") : calls[j].ok}}
Processed(r) == {ChunkOf(i) : i \in {j \in CallsIn(r, "process") : calls[j].ok}}
Failed(r) == {ChunkOf(i) : i \in {j \in CallsIn(r, "process") : ~calls[j].ok}}
Aborted(r) == Failed(r) # {}
MergeFailed(r) == \E i \in CallsIn(r, "combine") : ~calls[i].ok
Merged(r) == \E i \in CallsIn(r, "combine") : calls[i].ok

----------------------------------------------------------------------------
\* C1: for every mask (total_active_voxels >= 0) and nmr_voxels > 0 the
\* ranges _chunks_generator yields are contiguous, gap-free, in increasing
\* order, cover [0, total_active_voxels) exactly, each have a length between
\* 1 and nmr_voxels, and there are ceil(total_active_voxels / nmr_voxels) of
\* them (none iff there is no active voxel).
C1_ChunksPartition ==
    /\ Len(Chunks) = CeilDiv(TotalActive, nmr_voxels)
    /\ (Len(Chunks) = 0) <=> (TotalActive = 0)
    /\ \A i \in DOMAIN Chunks :
          /\ Chunks[i][2] - Chunks[i][1] >= 1
          /\ Chunks[i][2] - Chunks[i][1] <= nmr_voxels
    /\ Len(Chunks) > 0 => Chunks[1][1] = 0 /\ Chunks[Len(Chunks)][2] = TotalActive
    /\ \A i \in 1..(Len(Chunks) - 1) : Chunks[i][2] = Chunks[i + 1][1]
    /\ \A v \in 0..(TotalActive - 1) :
          Cardinality({i \in DOMAIN Chunks : Chunks[i][1] <= v /\ v < Chunks[i][2]}) = 1
    /\ Yielded = Partition

\* The loop has pulled every chunk of a partition that ends in a shorter chunk.
C1_Witness ==
    /\ pc = "combine"
    /\ Len(Chunks) >= 2
    /\ Chunks[Len(Chunks)][2] - Chunks[Len(Chunks)][1] < nmr_voxels
    /\ Processed(run) = Yielded

----------------------------------------------------------------------------
\* More notions for the properties of run.

DirOf(c) == SliceDirName(c[1], c[2])
Handled(r) == Skipped(r) \cup Processed(r)
ChunkCalls(r) == CallsIn(r, "output_exists") \cup CallsIn(r, "process")
LastCall == calls[Len(calls)]

\* The volume selecting the active voxels number s .. e-1 (counted from 0 in
\* flattening order), stated without create_roi and restore_volumes.
SelectedBy(s, e) ==
    [p \in 1..VolSize |->
        IF mask[p] # 0 /\ Cardinality({q \in 1..(p - 1) : mask[q] # 0}) \in s..(e - 1)
        THEN 1 ELSE 0]

UnionOfMasks(r) ==
    [p \in 1..VolSize |->
        IF \E i \in CallsIn(r, "process") : calls[i].cmask[p] = 1 THEN 1 ELSE 0]

\* C2, as claimed: when run has returned and is executed again with
\* recalculate false, the second run makes no worker.process call and returns
\* the first run's merged output.
C2_Original ==
    \A r \in 2..run :
        ((r - 1) \in DOMAIN returned /\ ~Recalc(r - 1) /\ Started(r) /\ ~Recalc(r)) =>
            /\ CallsIn(r, "process") = {}
            /\ r \in DOMAIN returned => returned[r] = returned[r - 1]

\* C2, amended: a run with recalculate false that follows a run whose combine
\* failed (every chunk's output is still in the chunks directory) makes no
\* worker.process call and finds every chunk existing; one that follows a run
\* that returned (which deleted the chunks directory) finds no chunk existing
\* and calls worker.process for each; and a second run that returns, returns
\* the merged output of the first.
C2_ResumeIdempotence ==
    \A r \in 2..run : (Started(r) /\ ~Recalc(r)) =>
        /\ MergeFailed(r - 1) =>
              /\ CallsIn(r, "process") = {}
              /\ \A i \in CallsIn(r, "output_exists") : calls[i].ok
              /\ (Merged(r) \/ MergeFailed(r)) => Skipped(r) = Partition
        /\ (r - 1) \in DOMAIN returned =>
              /\ \A i \in CallsIn(r, "output_exists") : ~calls[i].ok
              /\ (Merged(r) \/ MergeFailed(r)) => Processed(r) = Partition
              /\ r \in DOMAIN returned => returned[r] = returned[r - 1]

\* A second run without recalculate has returned after the first run's merge
\* failed with two or more chunks on disk.
C2_Witness ==
    /\ run = 2
    /\ pc = "done"
    /\ ~recalculate
    /\ MergeFailed(1)
    /\ Cardinality(Skipped(2)) >= 2

\* C3: with recalculate true, run calls worker.process for every chunk of the
\* partition whatever was on disk before: no output_exists check of the run
\* reports true, the slice directory does not exist when the check has been
\* made, and a run that reaches combine has processed every chunk.
C3_RecalculateProcessesAll ==
    /\ \A r \in 1..run : Recalc(r) =>
          /\ Skipped(r) = {}
          /\ (Merged(r) \/ MergeFailed(r) \/ (r = run /\ pc = "combine")) =>
                Processed(r) = Partition
    /\ (recalculate /\ pc = "process") => SliceDir \notin DOMAIN slice_dirs

\* A run with recalculate has returned, that started on the chunk directories
\* an aborted run left.
C3_Witness ==
    /\ run = 2
    /\ pc = "done"
    /\ recalculate
    /\ Aborted(1)
    /\ Processed(1) # {}
    /\ Cardinality(Processed(2)) >= 2

\* The step of _run_on_slice that finds the output of the chunk existing.
C4_SkipStep ==
    (pc = "slice" /\ ~recalculate /\ OutputExists(slice_dirs, SliceDir)) =>
        /\ slice_dirs' = slice_dirs
        /\ chunks_exists' = chunks_exists
        /\ calls' = Append(calls, Call("output_exists", IndStart, IndEnd, TRUE, None))
        /\ pc' = "loop"
        /\ ci' = ci

\* The step of the loop that follows a skip.
C4_AfterSkip ==
    (pc = "loop" /\ calls # <<>> /\ LastCall.op = "output_exists" /\ LastCall.ok) =>
        /\ UNCHANGED <<slice_dirs, chunks_exists, calls>>
        /\ IF ci < Len(Chunks) THEN pc' = "slice" /\ ci' = ci + 1 ELSE pc' = "combine"

\* No run both skips and processes a chunk.
C4_SkippedNotProcessed ==
    \A r \in 1..run : Skipped(r) \cap (Processed(r) \cup Failed(r)) = {}

\* C4: with recalculate false, a chunk whose output_exists check reports true
\* is skipped: the step leaves the disk as it is (no mask file, no change to
\* the slice directory), worker.process is not called for the chunk in that
\* run, and the loop goes on with the next chunk (or the merge).
C4_SkipIsEntire ==
    /\ []C4_SkippedNotProcessed
    /\ [][C4_SkipStep]_vars
    /\ [][C4_AfterSkip]_vars

\* A chunk has been skipped and the run has gone on to check the next one.
C4_Witness ==
    \E i \in DOMAIN calls :
        /\ calls[i].op = "output_exists" /\ calls[i].ok
        /\ i < Len(calls)
        /\ calls[i + 1].op = "output_exists"
        /\ calls[i + 1].run = calls[i].run
        /\ calls[i + 1].start = calls[i].end

\* C5: when worker.process fails on a chunk the run aborts at once: the
\* failing call is the run's last call (no later check, no retry, no combine),
\* the chunks directory is still there, and the chunks completed earlier in
\* the run are on disk as they were written.
C5_AbortOnFailure ==
    /\ \A i \in DOMAIN calls : (calls[i].op = "process" /\ ~calls[i].ok) =>
          \A j \in DOMAIN calls : j > i => calls[j].run > calls[i].run
    /\ Aborted(run) =>
          /\ pc = "aborted"
          /\ chunks_exists
          /\ CallsIn(run, "combine") = {}
          /\ run \notin DOMAIN returned
          /\ \A c \in Failed(run) :
                Cardinality({i \in CallsIn(run, "process") : ChunkOf(i) = c}) = 1
          /\ \A i \in CallsIn(run, "process") : calls[i].ok =>
                /\ DirOf(ChunkOf(i)) \in DOMAIN slice_dirs
                /\ slice_dirs[DirOf(ChunkOf(i))] =
                      [out |-> calls[i].cmask, mask_file |-> calls[i].cmask]
          /\ \A c \in Skipped(run) : OutputExists(slice_dirs, DirOf(c))

\* A run has aborted after completing a chunk and with chunks still to do.
C5_Witness ==
    /\ pc = "aborted"
    /\ Processed(run) # {}
    /\ ci < Len(Chunks)

\* C6: a run with recalculate false that follows a run aborted by a failing
\* worker.process skips exactly the chunks that completed in the aborted run
\* and calls worker.process only for the others; over both runs no chunk is
\* processed successfully twice, and at the merge every chunk of the partition
\* has its output on disk.
C6_ResumeAfterFailure ==
    \A r \in 2..run : (Aborted(r - 1) /\ Started(r) /\ ~Recalc(r)) =>
        /\ \A i \in CallsIn(r, "output_exists") :
              calls[i].ok <=> (ChunkOf(i) \in Handled(r - 1))
        /\ \A i \in CallsIn(r, "process") : ChunkOf(i) \notin Handled(r - 1)
        /\ \A c \in Partition :
              Cardinality({i \in CallsIn(r - 1, "process") \cup CallsIn(r, "process") :
                              calls[i].ok /\ ChunkOf(i) = c}) <= 1
        /\ (Merged(r) \/ MergeFailed(r) \/ (r = run /\ pc = "combine")) =>
              /\ Handled(r - 1) \subseteq Skipped(r)
              /\ Handled(r) = Partition
        /\ (r = run /\ pc = "combine") =>
              \A c \in Partition : OutputExists(slice_dirs, DirOf(c))

\* The run after an aborted one has skipped the completed chunks, processed
\* the others and returned.
C6_Witness ==
    /\ run = 2
    /\ pc = "done"
    /\ ~recalculate
    /\ Aborted(1)
    /\ Processed(1) # {}
    /\ Skipped(2) = Processed(1)
    /\ Processed(2) # {}

\* C7: merge is a barrier: a run calls worker.combine at most once, only when
\* every chunk of the partition has been skipped or processed in that run,
\* and makes no output_exists or process call after it.
C7_MergeIsBarrier ==
    /\ \A r \in 1..run :
          /\ Cardinality(CallsIn(r, "combine")) <= 1
          /\ \A j \in CallsIn(r, "combine") :
                /\ \A c \in Partition :
                      \E i \in ChunkCalls(r) : i < j /\ ChunkOf(i) = c /\ calls[i].ok
                /\ \A i \in DOMAIN calls : i > j => calls[i].run > r
    /\ pc \in {"loop", "slice", "process"} => CallsIn(run, "combine") = {}
    /\ pc = "combine" => Handled(run) = Partition

\* A run that skipped some chunks and processed others has merged.
C7_Witness ==
    /\ pc = "rmtree"
    /\ Skipped(run) # {}
    /\ Processed(run) # {}

\* Where the chunks directory exists.
C8_State ==
    /\ pc = "merge_failed" =>
          /\ chunks_exists
          /\ \A c \in Partition : OutputExists(slice_dirs, DirOf(c))
    /\ pc \in {"loop", "slice", "process", "combine", "rmtree", "aborted"} => chunks_exists
    /\ pc = "done" => ~chunks_exists /\ Merged(run) /\ run \in DOMAIN returned

\* The step in which worker.combine raises.
C8_CombineFailStep ==
    (pc = "combine" /\ pc' = "merge_failed") => UNCHANGED <<chunks_exists, slice_dirs>>

\* A step that deletes the chunks directory.
C8_DeleteStep ==
    (chunks_exists /\ ~chunks_exists') => (pc = "rmtree" /\ Merged(run))

\* C8: the chunks directory is deleted only after worker.combine returned: a
\* failing combine leaves it and every slice directory as they are, each chunk
\* with its output; after a successful combine it is gone when run returns.
C8_DeleteAfterMerge ==
    /\ []C8_State
    /\ [][C8_CombineFailStep]_vars
    /\ [][C8_DeleteStep]_vars

\* A merge failed, leaving two or more chunks, and the next run merged them
\* and deleted the chunks directory.
C8_Witness ==
    /\ run = 2
    /\ pc = "done"
    /\ MergeFailed(1)
    /\ Cardinality(Partition) >= 2

\* C9: within one run the chunks are handled one after another in increasing
\* order of their start index: of two chunk calls of a run the earlier is for
\* an earlier chunk, or they are the check and the process call of one chunk,
\* adjacent and in that order; the chunk in hand is later than all before.
C9_IncreasingOrder ==
    /\ \A i, j \in DOMAIN calls :
          (i < j /\ calls[i].run = calls[j].run
                 /\ calls[i].op \in {"output_exists", "process"}
                 /\ calls[j].op \in {"output_exists", "process"}) =>
              \/ calls[i].end <= calls[j].start
              \/ /\ ChunkOf(i) = ChunkOf(j)
                 /\ calls[i].op = "output_exists" /\ ~calls[i].ok
                 /\ calls[j].op = "process"
                 /\ j = i + 1
    /\ pc = "slice" => \A i \in ChunkCalls(run) : calls[i].end <= IndStart
    /\ pc = "process" =>
          /\ LastCall = Call("output_exists", IndStart, IndEnd, FALSE, None)
          /\ \A i \in ChunkCalls(run) : i < Len(calls) => calls[i].end <= IndStart

\* A run has handled three or more chunks, some skipped and some processed.
C9_Witness ==
    /\ pc = "combine"
    /\ Len(Chunks) >= 3
    /\ Skipped(run) # {}
    /\ Cardinality(Processed(run)) >= 2

\* C10: the chunk mask passed to worker.process for chunk [start, end) selects
\* exactly the active voxels number start .. end-1 of the mask's flattened
\* ordering: it has end - start true voxels, lies within the mask, the masks
\* of distinct chunks are disjoint, and the masks of all chunks together are
\* the mask.
C10_ChunkMaskSelects ==
    /\ \A i \in DOMAIN calls : calls[i].op = "process" =>
          /\ calls[i].cmask = SelectedBy(calls[i].start, calls[i].end)
          /\ CountNonzero(calls[i].cmask) = calls[i].end - calls[i].start
          /\ \A p \in 1..VolSize : calls[i].cmask[p] # 0 => mask[p] # 0
          /\ \A j \in DOMAIN calls :
                (calls[j].op = "process" /\ ChunkOf(j) # ChunkOf(i)) =>
                    \A p \in 1..VolSize : ~(calls[i].cmask[p] # 0 /\ calls[j].cmask[p] # 0)
    /\ \A r \in 1..run :
          (Processed(r) \cup Failed(r) = Partition) => UnionOfMasks(r) = mask
    /\ pc \in {"slice", "process"} => chunk_mask = SelectedBy(IndStart, IndEnd)

\* Every chunk of a partition of two or more chunks has been passed to the
\* worker, for a mask with an inactive voxel before an active one.
C10_Witness ==
    /\ pc = "combine"
    /\ Len(Chunks) >= 2
    /\ Processed(run) = Partition
    /\ \E p, q \in 1..VolSize : p < q /\ mask[p] = 0 /\ mask[q] = 1

----------------------------------------------------------------------------
\* Reading a slice directory's name back.

DigitChars == {"0", "1", "2", "3", "4", "5", "6", "7", "8", "9"}

DigitValue(c) ==
    CASE c = "0" -> 0 [] c = "1" -> 1 [] c = "2" -> 2 [] c = "3" -> 3 [] c = "4" -> 4
      [] c = "5" -> 5 [] c = "6" -> 6 [] c = "7" -> 7 [] c = "8" -> 8 [] c = "9" -> 9

\* The number a plain decimal numeral (no sign, no padding) stands for; -1
\* when the characters are no such numeral.
RECURSIVE NumeralValue(_)
NumeralValue(cs) ==
    IF cs = <<>> \/ (\E k \in DOMAIN cs : cs[k] \notin DigitChars) THEN -1
    ELSE IF Len(cs) > 1 /\ cs[1] = "0" THEN -1
    ELSE IF Len(cs) = 1 THEN DigitValue(cs[1])
    ELSE 10 * NumeralValue(SubSeq(cs, 1, Len(cs) - 1)) + DigitValue(cs[Len(cs)])

\* The (start, end) a name of the form <numeral>_<numeral> stands for;
\* <<-1, -1>> for any other name.
NameValue(name) ==
    LET us == {k \in DOMAIN name : name[k] = "_"} IN
    IF Cardinality(us) # 1 THEN <<-1, -1>>
    ELSE LET k == CHOOSE k \in us : TRUE IN
         <<NumeralValue(SubSeq(name, 1, k - 1)),
           NumeralValue(SubSeq(name, k + 1, Len(name)))>>

SliceDirCalls == {i \in DOMAIN calls : calls[i].op = "slice_dir"}

\* C11: the slice directory of chunk [start, end) is the directory named
\* '{start}_{end}' (plain decimal integers) in the 'chunks' directory of the
\* output path; distinct chunks have distinct directories, and a chunk has
\* the same directory in every run with the same mask and nmr_voxels.
C11_SliceDirNames ==
    /\ \A i \in SliceDirCalls :
          LET path == calls[i].cmask IN
          /\ Len(path) = Len(OutputPath) + 2
          /\ SubSeq(path, 1, Len(OutputPath)) = OutputPath
          /\ path[Len(OutputPath) + 1] = "chunks"
          /\ NameValue(path[Len(path)]) = ChunkOf(i)
    /\ \A i, j \in SliceDirCalls :
          (calls[i].cmask = calls[j].cmask) <=> (ChunkOf(i) = ChunkOf(j))
    /\ \A r \in 1..run :
          Cardinality({calls[i].cmask : i \in CallsIn(r, "slice_dir")})
              = Cardinality(CallsIn(r, "slice_dir"))

\* The second run has named every chunk of a partition with numbers of two
\* digits.
C11_Witness ==
    /\ pc = "slice_dir"
    /\ run = 2
    /\ ci = Len(Chunks)
    /\ Len(Chunks) >= 5
    /\ \E i \in CallsIn(2, "slice_dir") : calls[i].start >= 10
    /\ \E i \in CallsIn(2, "slice_dir") : calls[i].start < 10 /\ calls[i].end >= 10


----------------------------------------------------------------------------
\* SimpleBatchProfile: notions the properties are stated in.

\* An optional string that is given: neither None nor ''.
Given(v) == v # PyNone /\ v # PyStr("")

\* The name of a mask file without its folder and its image extension.
MaskBasename(fname) ==
    CHOOSE b \in {"brain_mask", "wm_mask"} :
        \E folder \in {"", "masks/"}, ext \in {".nii", ".nii.gz"} :
            fname = folder \o b \o ext

\* root/subject_id/output_base_dir[/output_sub_dir][/mask_basename] under
\* the configuration of profile p.
ComposedOutputDir(p, subject_id, mask_fname) ==
    p.root_dir \o <<subject_id, p.output_base_dir>>
        \o (IF Given(p.output_sub_dir) THEN <<p.output_sub_dir.value>> ELSE <<>>)
        \o (IF p.append_mask_name_to_output_sub_dir /\ Given(mask_fname)
            THEN <<MaskBasename(mask_fname.value)>> ELSE <<>>)

\* The ids and output directories a discovery under the configuration of
\* bp yields.
Discovered ==
    [k \in 1..Len(disk[bp.root_dir]) |->
        [subject_id |-> disk[bp.root_dir][k].subject_id,
         output_dir |-> ComposedOutputDir(bp, disk[bp.root_dir][k].subject_id,
                                          disk[bp.root_dir][k].mask_fname)]]

\* The ids and output directories of a list of subjects.
IdsAndDirs(subjects) ==
    [k \in 1..Len(subjects) |->
        [subject_id |-> subjects[k].subject_id, output_dir |-> subjects[k].output_dir]]

LastIsQuery == obs.last.op \in Queries

\* C12: _get_subjects runs at most once between two settings of
\* output_base_dir or output_sub_dir (and from construction to the first
\* such setting), whatever the discovery result is, the empty list included.
C12_DiscoveryOncePerConfiguration == obs.hook_runs <= 1

C14_NoStaleOutputDirs ==
    Truth(bp.subjects_found) =>
        \A k \in DOMAIN bp.subjects_found.value :
            \E r \in DOMAIN disk : \E j \in DOMAIN disk[r] :
                /\ disk[r][j].subject_id = bp.subjects_found.value[k].subject_id
                /\ bp.subjects_found.value[k].output_dir
                     = ComposedOutputDir([bp EXCEPT !.root_dir = r],
                                         disk[r][j].subject_id, disk[r][j].mask_fname)

C16_OutputDirComposition ==
    /\ \A k \in 1..MaxFound, m \in MaskArgs :
          get_subject_output_dir(bp, SubjectIds[k], m, PyNone)
              = ComposedOutputDir(bp, SubjectIds[k], m)
    /\ (/\ bp.root_dir = <<"root">>
        /\ bp.output_base_dir = SimpleBatchProfileInit.output_base_dir
        /\ bp.output_sub_dir = SimpleBatchProfileInit.output_sub_dir
        /\ bp.append_mask_name_to_output_sub_dir
             = SimpleBatchProfileInit.append_mask_name_to_output_sub_dir)
       => get_subject_output_dir(bp, "subj1", PyStr("brain_mask.nii.gz"), PyNone)
            = <<"root", "subj1", "output", "brain_mask">>
    /\ bp.append_mask_name_to_output_sub_dir =>
          \A k \in 1..MaxFound, m1, m2 \in MaskFnames :
              MaskBasename(m1) # MaskBasename(m2) =>
                  get_subject_output_dir(bp, SubjectIds[k], PyStr(m1), PyNone)
                      # get_subject_output_dir(bp, SubjectIds[k], PyStr(m2), PyNone)
    /\ (LastIsQuery /\ obs.last.hook) =>
          IdsAndDirs(bp.subjects_found.value) = Discovered

\* A discovery under the defaults has given subj1 with mask
\* brain_mask.nii.gz its directory, and subj2 without a mask its own.
C16_Witness ==
    /\ LastIsQuery /\ obs.last.hook
    /\ Len(bp.subjects_found.value) = 2
    /\ bp.subjects_found.value[1].subject_id = "subj1"
    /\ disk[bp.root_dir][1].mask_fname = PyStr("brain_mask.nii.gz")
    /\ bp.subjects_found.value[1].output_dir = <<"root", "subj1", "output", "brain_mask">>
    /\ bp.subjects_found.value[2].output_dir = <<"root", "subj2", "output">>


----------------------------------------------------------------------------
\* get_best_batch_profile: notions the properties are stated in.

\* The registered profiles that find at least one subject in the data folder.
SuitableProfiles == {k \in DOMAIN gb.finds : Len(gb.finds[k]) >= 1}

\* get_best_batch_profile was called and has returned (gb.found).
BestReturned ==
    gb.batch_profile = PyNone /\ gb.pc \in {"bind", "returned", "walk", "AttributeError"}

\* C17: get_best_batch_profile binds the data folder to every registered
\* profile and returns a suitable profile of maximal subject count, the
\* first such profile in iteration order.
C17_BestIsFirstMaximum ==
    BestReturned =>
        /\ \A k \in DOMAIN gb.crawlers : gb.crawlers[k].root_dir = DataFolder
        /\ SuitableProfiles # {} =>
              /\ gb.found.type = "int"
              /\ gb.found.value \in SuitableProfiles
              /\ \A j \in SuitableProfiles :
                    /\ Len(gb.finds[j]) <= Len(gb.finds[gb.found.value])
                    /\ Len(gb.finds[j]) = Len(gb.finds[gb.found.value])
                          => gb.found.value <= j

\* get_best_batch_profile has returned the second of three profiles, the
\* second and the third sharing the maximum count.
C17_Witness ==
    /\ gb.batch_profile = PyNone
    /\ gb.pc = "bind"
    /\ Len(gb.crawlers) = 3
    /\ gb.found = PyInt(2)
    /\ Len(gb.finds[1]) = 2
    /\ Len(gb.finds[2]) = 3
    /\ Len(gb.finds[3]) = 3

\* C18: get_best_batch_profile returns None iff no registered profile is
\* suitable, and auto-detection then ends in a failure: the factory returns
\* no profile and no subject is walked.
C18_NoneIffNoSuitable ==
    /\ BestReturned => ((gb.found = PyNone) <=> (SuitableProfiles = {}))
    /\ (gb.batch_profile = PyNone /\ SuitableProfiles = {}) =>
          /\ gb.pc \in {"factory", "best", "bind", "AttributeError"}
          /\ gb.ret = PyNone
          /\ gb.subjects = PyNone
    /\ gb.pc = "AttributeError" => (gb.batch_profile = PyNone /\ SuitableProfiles = {})
    /\ gb.pc = "walk" => (gb.ret # PyNone /\ gb.subjects.type = "list")

\* Auto-detection over two registered profiles, neither suitable, has
\* raised.
C18_Witness ==
    /\ gb.pc = "AttributeError"
    /\ Len(gb.crawlers) = 2
    /\ gb.found = PyNone


----------------------------------------------------------------------------
\* SelectedSubjects: notions the properties are stated in.

\* The positions (from 0) of the subjects with the id start_from.
StartMatches ==
    IF sel.start_from.type = "str"
    THEN {k \in 0..(Len(sel.subjects) - 1) :
             sel.subjects[k + 1].subject_id = sel.start_from.value}
    ELSE {}

\* start_from is absent, a position of the list, or the id of a subject.
StartInList ==
    \/ sel.start_from = PyNone
    \/ sel.start_from.type = "int" /\ sel.start_from.value \in 0..(Len(sel.subjects) - 1)
    \/ StartMatches # {}

\* The starting index of such a start_from.
StartingIndex ==
    IF sel.start_from = PyNone THEN 0
    ELSE IF sel.start_from.type = "int" THEN sel.start_from.value
    ELSE CHOOSE k \in StartMatches : \A j \in StartMatches : k <= j

\* The subjects at or after the starting index, at a position in indices
\* when indices is given, with an id in subject_ids when subject_ids is
\* given.
Intersection ==
    Keep(sel.subjects,
         {k \in DOMAIN sel.subjects :
             /\ k - 1 >= StartingIndex
             /\ sel.indices # PyNone => In(k - 1, sel.indices.value)
             /\ sel.subject_ids # PyNone =>
                    In(sel.subjects[k].subject_id, sel.subject_ids.value)})

\* C19: whatever the combination of indices, subject_ids and start_from,
\* get_selection returns the intersection of the three selections; on
\* s1..s4, subject_ids = [s1, s3] with start_from = s2 gives [s3].
C19_SelectorsIntersect ==
    (sel.pc = "returned" /\ StartInList) => sel.ret = PyList(Intersection)

\* C20: with neither indices nor subject_ids, get_selection returns the
\* tail of the list from the starting index: from 0 without start_from,
\* from k for a position k, from the first subject with the id start_from.
C20_TailSlice ==
    (/\ sel.pc = "returned"
     /\ sel.indices = PyNone
     /\ sel.subject_ids = PyNone
     /\ StartInList) =>
        /\ sel.starting_pos = PyInt(StartingIndex)
        /\ sel.ret = PyList(SubSeq(sel.subjects, StartingIndex + 1, Len(sel.subjects)))

\* On s1..s4, start_from = 's3' alone has given [s3, s4].
C20_Witness ==
    /\ sel.pc = "returned"
    /\ sel.indices = PyNone
    /\ sel.subject_ids = PyNone
    /\ sel.start_from = PyStr("s3")
    /\ sel.subjects = Window(1, 4)
    /\ sel.ret = PyList(Window(3, 4))


\* C21: when start_from is a string that is the id of no subject of the
\* list, _get_starting_pos completes and returns None, whatever the list.
C21_AbsentIdGivesNone ==
    (sel.pc # "new" /\ sel.start_from.type = "str" /\ StartMatches = {}) =>
        sel.starting_pos = PyNone


----------------------------------------------------------------------------
\* _get_single_model_names: notions the properties are stated in.

\* The names a cascade lists as its sub-models.
SubModels(registry, n) ==
    IF registry[n].type = "cascade" THEN Elements(registry[n].value) ELSE {}

\* The names reachable from a set of names through sub-model lists.
RECURSIVE Reach(_, _)
Reach(registry, names) ==
    LET more == names \cup UNION {SubModels(registry, n) : n \in names} IN
    IF more = names THEN names ELSE Reach(registry, more)

\* The single (leaf) models reachable from a list of names.
Leaves(registry, model_names) ==
    {n \in Reach(registry, Elements(model_names)) : registry[n].type = "model"}

\* A cascade reachable from the names of the current call is reachable
\* from itself.
Cyclic ==
    \E n \in Reach(cr.registry, Elements(cr.model_names)) :
        n \in Reach(cr.registry, SubModels(cr.registry, n))

\* The registry of the example: A -> [B, C], C -> [D, B].
ExampleRegistry ==
    [n \in ModelNames |->
        IF n = "A" THEN CascadeModel(<<"B", "C">>)
        ELSE IF n = "C" THEN CascadeModel(<<"D", "B">>)
        ELSE SingleModel]

\* C22: on an acyclic model graph _get_single_model_names returns exactly
\* the set of single model names reachable from the input names, no
\* cascade name among them; [A] with A -> [B, C] and C -> [D, B] gives
\* {B, D}.
C22_ReachableLeaves ==
    (cr.pc = "returned" /\ ~Cyclic) =>
        /\ cr.ret = Leaves(cr.registry, cr.model_names)
        /\ \A n \in cr.ret : cr.registry[n].type # "cascade"
        /\ (cr.registry = ExampleRegistry /\ cr.model_names = <<"A">>)
              => cr.ret = {"B", "D"}

\* The first call has returned {B, D} on the example.
C22_Witness ==
    /\ cr.pc = "returned"
    /\ cr.call = "first"
    /\ cr.registry = ExampleRegistry
    /\ cr.model_names = <<"A">>
    /\ cr.ret = {"B", "D"}

\* C23: within one call on an acyclic graph each name is looked up in the
\* registry at most once (a returned call has looked up each reachable
\* name once), and a second call looks the names up again and returns what
\* the registry holds then.
C23_MemoPerCall ==
    ~Cyclic =>
        /\ \A n \in ModelNames : cr.lookups[n] <= 1
        /\ cr.pc = "returned" =>
              /\ \A n \in ModelNames :
                    cr.lookups[n] =
                        IF n \in Reach(cr.registry, Elements(cr.model_names))
                        THEN 1 ELSE 0
              /\ cr.ret = Leaves(cr.registry, cr.model_names)

\* The second call, on a cascade and its sub-cascade, after one of the
\* two was registered anew, has returned other names than the first.
C23_Witness ==
    /\ cr.pc = "returned"
    /\ cr.call = "second"
    /\ cr.model_names = <<"A", "C">>
    /\ cr.first.registry # cr.registry
    /\ cr.first.ret # cr.ret
    /\ "C" \in SubModels(cr.first.registry, "A")
    /\ cr.lookups["C"] = 1

\* Termination of a call on an acyclic graph.
C24_AcyclicReturns ==
    (cr.pc \in {"new", "running"} /\ ~Cyclic) ~> (cr.pc = "returned")

\* A call on a cyclic graph recurses up to the recursion limit.
C24_CyclicOverflows == Cyclic ~> (cr.pc = "RecursionError")

\* C24: the resolution returns for every acyclic model graph, and never
\* returns when a cascade reachable from the input names is reachable from
\* itself: the recursion goes on until the interpreter's limit.
C24_Termination ==
    /\ [](Cyclic => cr.pc # "returned")
    /\ C24_AcyclicReturns
    /\ C24_CyclicOverflows

\* The call on a cascade that lists itself has hit the recursion limit.
C24_Witness ==
    /\ cr.pc = "RecursionError"
    /\ cr.call = "first"
    /\ cr.model_names = <<"A">>
    /\ cr.registry["A"] = CascadeModel(<<"A">>)
    /\ cr.lookups["A"] = MaxDepth

\* The subjects the walk is on: all discovered subjects without a
\* selection, else those whose id the selection lists.
Walked ==
    IF ow.subjects_selection = PyNone THEN ow.discovered
    ELSE SelectSeq(ow.discovered,
                   LAMBDA s : s.subject_id \in Elements(ow.subjects_selection.subject_ids.value))

\* The pairs of a walked subject and a resolved model name whose output
\* directory existed when the walk began.
WithOutput ==
    {<<s, m>> \in Elements(Walked) \X Elements(ow.resolved) :
        ow.start[OsPathJoin(s.output_dir, m)].kind = "dir"}

\* The number of descriptors of a pair in a list of descriptors.
Descriptors(list, s, m) ==
    Cardinality({k \in DOMAIN list :
                    list[k] = BatchFitSubjectOutputInfo(s, OsPathJoin(s.output_dir, m), m)})

\* The position of a subject in the walked subjects.
WalkedAt(subject_info) == CHOOSE k \in DOMAIN Walked : Walked[k] = subject_info

\* C25: the generator resolves the model names once, and yields one
\* descriptor for each pair of a selected subject and a resolved model name
\* whose output directory exists, none for another pair, the subjects in
\* the order of the selection; without a selection all discovered subjects
\* are walked.
C25_YieldsExistingOutputs ==
    /\ ow # PyNone =>
          /\ ow.resolutions <= 1
          /\ \A k \in DOMAIN ow.yielded :
                /\ <<ow.yielded[k].subject_info, ow.yielded[k].model_name>> \in WithOutput
                /\ ow.yielded[k].output_path =
                       OsPathJoin(ow.yielded[k].subject_info.output_dir,
                                  ow.yielded[k].model_name)
          /\ \A j, k \in DOMAIN ow.yielded :
                j < k => /\ ow.yielded[j] # ow.yielded[k]
                         /\ WalkedAt(ow.yielded[j].subject_info)
                                <= WalkedAt(ow.yielded[k].subject_info)
    /\ (ow # PyNone /\ ow.pc = "done") =>
          /\ ow.resolutions = 1
          /\ ow.subjects = Walked
          /\ \A s \in Elements(Walked), m \in Elements(ow.resolved) :
                Descriptors(ow.yielded, s, m) = IF <<s, m>> \in WithOutput THEN 1 ELSE 0

\* A walk without selection over two subjects and two models has ended,
\* three of the four output directories existing.
C25_Witness ==
    /\ ow # PyNone
    /\ ow.pc = "done"
    /\ ow.subjects_selection = PyNone
    /\ Len(ow.discovered) = 2
    /\ Len(ow.resolved) = 2
    /\ Len(ow.yielded) = 3
    /\ Cardinality(WithOutput) = 3

\* The pairs of subject id and model name the returned mapping has.
ResultKeys(results) == {<<s, m>> \in WalkSubjectIds \X WalkModelNames :
                           s \in DOMAIN results /\ m \in DOMAIN results[s]}

\* C26: run_function_on_batch_fit_output applies the function once to every
\* yielded descriptor, and returns a mapping from subject id to model name
\* to result whose keys are the pairs with an existing output directory; a
\* subject or model without output gives no entry and no error.
C26_ResultsPerOutput ==
    /\ ow # PyNone =>
          /\ Len(ow.applied) <= Len(ow.yielded)
          /\ Len(ow.yielded) <= Len(ow.applied) + 1
          /\ \A k \in DOMAIN ow.applied : ow.applied[k] = ow.yielded[k]
          /\ ow.func.name = "user" => ow.pc # "raised"
    /\ (ow # PyNone /\ ow.pc = "done") =>
          /\ ow.applied = ow.yielded
          /\ ow.ret = PyList(ow.results)
          /\ ResultKeys(ow.results) =
                 {<<p[1].subject_id, p[2]>> : p \in WithOutput}
          /\ \A s \in DOMAIN ow.results : DOMAIN ow.results[s] # {}
          /\ ow.func.name = "user" =>
                \A p \in WithOutput :
                    ow.results[p[1].subject_id][p[2]] =
                        UserValue(BatchFitSubjectOutputInfo(
                                      p[1], OsPathJoin(p[1].output_dir, p[2]), p[2]))

\* The function of a caller was applied to the three outputs of two
\* subjects, the second model of one subject having no output.
C26_Witness ==
    /\ ow # PyNone
    /\ ow.pc = "done"
    /\ ow.func.name = "user"
    /\ Len(ow.applied) = 3
    /\ DOMAIN ow.results = {"s1", "s2"}
    /\ DOMAIN ow.results["s1"] = {"M1", "M2"}
    /\ DOMAIN ow.results["s2"] = {"M1"}
    /\ ow.start[SourcePath("s2", "M2")] = Absent

\* What the collection of an output is to leave at its destination.
Requested(info) ==
    IF ow.func.move \/ ~ow.func.symlink
    THEN Directory(MapsOf(info.subject_id, info.model_name))
    ELSE Symlink(info.output_path)

\* C27: collect_batch_fit_output removes what is at the destination of an
\* output, be it a file, a symlink or a directory, and does not fail on it:
\* the destination then holds the requested copy, move or symlink only.
C27_OldEntryRemoved ==
    (ow # PyNone /\ ow.func.name = "copy_function") =>
        /\ ow.pc # "raised"
        /\ \A k \in DOMAIN ow.applied :
              ow.fs[DestPath(ow.applied[k].subject_id, ow.applied[k].model_name)]
                  = Requested(ow.applied[k])

\* C28: with move true, whatever symlink is, every collected output
\* directory is gone from its place, and its destination is a directory
\* with its maps, no symlink.
C28_MoveOverSymlink ==
    (ow # PyNone /\ ow.func.name = "copy_function" /\ ow.func.move) =>
        /\ \A k \in DOMAIN ow.applied :
              (k < Len(ow.applied) \/ ow.pc # "raised") =>
                  /\ ow.fs[ow.applied[k].output_path] = Absent
                  /\ ow.fs[DestPath(ow.applied[k].subject_id, ow.applied[k].model_name)]
                         = Directory(MapsOf(ow.applied[k].subject_id,
                                            ow.applied[k].model_name))
        /\ ow.pc = "done" =>
              \A p \in WithOutput :
                  /\ ow.fs[OsPathJoin(p[1].output_dir, p[2])] = Absent
                  /\ ow.fs[DestPath(p[1].subject_id, p[2])].kind = "dir"

\* Two outputs were collected with move and symlink both true, one of them
\* to a destination that held a symlink.
C28_Witness ==
    /\ ow # PyNone
    /\ ow.pc = "done"
    /\ ow.func.name = "copy_function"
    /\ ow.func.move
    /\ ow.func.symlink
    /\ Len(ow.applied) = 2
    /\ \E k \in DOMAIN ow.applied :
          ow.start[DestPath(ow.applied[k].subject_id, ow.applied[k].model_name)].kind
              = "symlink"

\* C29: a subject made with mask_fname None has the mask file name
\* <output_dir>/auto_generated_mask.nii.gz; get_mask_filename and
\* get_problem_data create the mask if and only if no file is at the mask
\* file name when they are called, each call uses the same file name, a
\* mask once created is not created again, and a subject whose mask file
\* exists has no mask created.
C29_MaskCreatedOnce ==
    si # PyNone =>
        /\ si.mask_arg = PyNone =>
              si.self.mask_fname =
                  PyPath(OsPathJoin(si.self.output_dir, "auto_generated_mask.nii.gz"))
        /\ si.mask_arg # PyNone => si.self.mask_fname = si.mask_arg
        /\ \A k \in DOMAIN si.calls :
              /\ si.calls[k].created <=> ~si.calls[k].isfile
              /\ si.calls[k].ret = si.self.mask_fname
              /\ si.calls[k].created => \A j \in DOMAIN si.calls : j > k => ~si.calls[j].created
        /\ si.created = Cardinality({k \in DOMAIN si.calls : si.calls[k].created})
        /\ si.created <= 1
        /\ si.self.mask_fname \in si.start => si.created = 0
        /\ (si.self.mask_fname \notin si.start /\ si.calls # <<>>) =>
              si.calls[1].created

\* A subject without mask file: the first call created the generated mask
\* in the output directory, and a get_problem_data after it did not.
C29_Witness ==
    /\ si # PyNone
    /\ si.mask_arg = PyNone
    /\ Len(si.calls) = 3
    /\ si.calls[1].created
    /\ si.calls[1].ret = PyPath(<<"root", "subj1", "output", "run1",
                                  "auto_generated_mask.nii.gz">>)
    /\ si.calls[3].op = "get_problem_data"
    /\ ~si.calls[3].created
    /\ si.created = 1

\* C30: of two invocations of run at the same time on one output path, at
\* most one is in worker.process for a chunk, and neither removes the
\* chunks directory while the other is in worker.process.
C30_OneWriterPerChunk ==
    cc # PyNone =>
        /\ ~(/\ cc.pc[1] = "process"
             /\ cc.pc[2] = "process"
             /\ cc.ci[1] = cc.ci[2])
        /\ cc.removed = {}

\* The '__mask' file of a slice directory, None if there is none.
MaskFile(d) == IF d \in DOMAIN slice_dirs THEN slice_dirs[d].mask_file ELSE None

\* C31: the chunk mask is written as '__mask' into the directory of a chunk
\* exactly when worker.process has returned for the chunk: every '__mask' on
\* disk is the chunk mask of a process call that returned, none is there
\* while worker.process runs, a returned call is followed by the mask, and
\* a failed call leaves no '__mask' for its chunk.
C31_MaskAfterProcess ==
    /\ \A d \in DOMAIN slice_dirs : slice_dirs[d].mask_file # None =>
          \E i \in DOMAIN calls :
              /\ calls[i].op = "process" /\ calls[i].ok
              /\ DirOf(ChunkOf(i)) = d
              /\ calls[i].cmask = slice_dirs[d].mask_file
    /\ pc = "process" => MaskFile(SliceDir) = None
    /\ (calls # <<>> /\ calls[Len(calls)].op = "process") =>
          MaskFile(DirOf(ChunkOf(Len(calls)))) =
              IF calls[Len(calls)].ok THEN calls[Len(calls)].cmask ELSE None
    /\ (calls # <<>> /\ calls[Len(calls)].op = "output_exists" /\ calls[Len(calls)].ok) =>
          \E i \in DOMAIN calls :
              /\ calls[i].op = "process" /\ calls[i].ok
              /\ calls[i].run < run
              /\ ChunkOf(i) = ChunkOf(Len(calls))

\* worker.process has failed on the second chunk of a run and left a part
\* of its output: the first chunk has its '__mask', the second has none.
C31_Witness ==
    /\ pc = "aborted"
    /\ ci = 2
    /\ SliceDir \in DOMAIN slice_dirs
    /\ MaskFile(SliceDir) = None
    /\ MaskFile(DirOf(Chunks[1])) = ChunkMask(mask, Chunks[1][1], Chunks[1][2])
    /\ MaskFile(DirOf(Chunks[1])) # None

\* The calls op of run r on chunk c.
CallsOn(r, op, c) == {i \in CallsIn(r, op) : ChunkOf(i) = c}

\* Run r has gone through its loop without a failing worker.process.
LoopDone(r) ==
    \/ CallsIn(r, "combine") # {}
    \/ r = run /\ pc = "combine"

\* C32: in a run that does not abort every chunk of the partition gets one
\* output_exists check and at most one process call, and is either skipped
\* or processed, not both and not neither: no generated chunk is dropped by
\* the guard on its indices.
C32_EveryChunkOnce ==
    \A r \in 1..run :
        /\ \A c \in Partition :
              /\ Cardinality(CallsOn(r, "output_exists", c)) <= 1
              /\ Cardinality(CallsOn(r, "process", c)) <= 1
              /\ ~(c \in Skipped(r) /\ CallsOn(r, "process", c) # {})
        /\ \A i \in ChunkCalls(r) : ChunkOf(i) \in Partition
        /\ LoopDone(r) =>
              \A c \in Partition :
                  /\ Cardinality(CallsOn(r, "output_exists", c)) = 1
                  /\ (c \in Skipped(r)) # (c \in Processed(r))
                  /\ c \in Skipped(r) => CallsOn(r, "process", c) = {}
                  /\ c \in Processed(r) => Cardinality(CallsOn(r, "process", c)) = 1

\* The second run on a mask whose last chunk has one voxel has returned:
\* it skipped the chunks the aborted first run completed and processed the
\* last chunk.
C32_Witness ==
    /\ run = 2
    /\ pc = "done"
    /\ Len(Chunks) = 2
    /\ Chunks[2][2] - Chunks[2][1] = 1
    /\ Skipped(2) = {Chunks[1]}
    /\ Processed(2) = {Chunks[2]}

\* C33: on a mask without active voxels run makes no output_exists and no
\* process call, calls worker.combine once, on the empty chunks directory,
\* and then removes the chunks directory.
C33_EmptyMask ==
    TotalActive = 0 =>
        /\ Chunks = <<>>
        /\ slice_dirs = <<>>
        /\ pc \notin {"slice", "process", "aborted"}
        /\ \A r \in 1..run :
              /\ ChunkCalls(r) = {}
              /\ Cardinality(CallsIn(r, "combine")) <= 1
              /\ (r < run \/ pc \in {"rmtree", "done", "merge_failed"}) =>
                    Cardinality(CallsIn(r, "combine")) = 1
        /\ pc \in {"loop", "combine", "rmtree"} => chunks_exists
        /\ pc = "done" =>
              /\ ~chunks_exists
              /\ Merged(run)
              /\ returned[run] = [p \in 1..VolSize |-> 0]

\* Two runs on a mask without active voxels have returned.
C33_Witness ==
    /\ TotalActive = 0
    /\ run = 2
    /\ pc = "done"
    /\ Merged(1)
    /\ Merged(2)
    /\ ~chunks_exists

\* A call of set_root_dir, and a query right after a set_root_dir that
\* found a memo with subjects.
C34_SetRootDirStep == obs'.last.op = "set_root_dir" => bp'.subjects_found = bp.subjects_found
C34_QueryAfterRootDir ==
    (/\ obs.last.op = "set_root_dir"
     /\ Truth(bp.subjects_found)
     /\ obs'.last.op \in Queries) =>
        /\ ~obs'.last.hook
        /\ bp'.subjects_found = bp.subjects_found
        /\ obs'.last.op = "get_subjects" => obs'.last.ret = bp.subjects_found
        /\ obs'.last.op = "profile_suitable" => obs'.last.ret = TRUE
        /\ obs'.last.op = "get_subjects_count" =>
              obs'.last.ret = Len(bp.subjects_found.value)

RECURSIVE Subsequence(_, _)
Subsequence(a, b) ==
    IF a = <<>> THEN TRUE
    ELSE IF b = <<>> THEN FALSE
    ELSE IF Head(a) = Head(b) THEN Subsequence(Tail(a), Tail(b))
    ELSE Subsequence(a, Tail(b))

\* C35: whenever get_selection returns, the result is the input list with
\* some subjects left out: subjects of the input only, none more often than
\* in the input, in the order of the input.
C35_OrderPreserving ==
    (sel # PyNone /\ sel.pc = "returned") =>
        /\ sel.ret.type = "list"
        /\ Subsequence(sel.ret.value, sel.subjects)
        /\ \A j, k \in DOMAIN sel.ret.value : j # k => sel.ret.value[j] # sel.ret.value[k]

\* On s1..s4, subject_ids = [s3, s1] has given [s1, s3].
C35_Witness ==
    /\ sel.pc = "returned"
    /\ sel.subjects = Window(1, 4)
    /\ sel.subject_ids = PyList(<<"s3", "s1">>)
    /\ sel.indices = PyNone
    /\ sel.ret = PyList(<<[subject_id |-> "s1"], [subject_id |-> "s3"]>>)

\* C36: with neither indices nor subject_ids and an integer start_from that
\* is no position of the list, get_selection returns the tail from that
\* index, the empty list.
C36_PastEndGivesEmpty ==
    (/\ sel # PyNone
     /\ sel.pc # "new"
     /\ sel.indices = PyNone
     /\ sel.subject_ids = PyNone
     /\ sel.start_from.type = "int"
     /\ sel.start_from.value >= Len(sel.subjects)) =>
        /\ sel.pc = "returned"
        /\ sel.ret = PyList(<<>>)

\* C37: with indices = [] and subject_ids None, or subject_ids = [] and
\* indices None, get_selection returns the whole list, whatever start_from
\* is.
C37_EmptyListsNoFilter ==
    (/\ sel # PyNone
     /\ sel.pc # "new"
     /\ \/ sel.indices = PyList(<<>>) /\ sel.subject_ids = PyNone
        \/ sel.subject_ids = PyList(<<>>) /\ sel.indices = PyNone) =>
        /\ sel.pc = "returned"
        /\ sel.ret = PyList(sel.subjects)

\* C39: on an acyclic graph the set _get_single_model_names returns is the
\* same for the same names in another order or number, and resolving the
\* returned names gives the returned names again.
C39_OrderAndIdempotence ==
    (/\ cr # PyNone
     /\ cr.pc = "returned"
     /\ cr.call = "second"
     /\ cr.first.registry = cr.registry
     /\ ~Cyclic) =>
        /\ Elements(cr.model_names) = Elements(cr.first.model_names) =>
              cr.ret = cr.first.ret
        /\ Elements(cr.model_names) = cr.first.ret => cr.ret = cr.first.ret

\* The calls on [A, C] and on [C, A], A a cascade of C and B, C a cascade
\* of D, have both returned {B, D}.
C39_Witness ==
    /\ cr # PyNone
    /\ cr.pc = "returned"
    /\ cr.call = "second"
    /\ cr.first.registry = cr.registry
    /\ cr.registry["A"] = CascadeModel(<<"C", "B">>)
    /\ cr.registry["C"] = CascadeModel(<<"D">>)
    /\ cr.first.model_names = <<"A", "C">>
    /\ cr.model_names = <<"C", "A">>
    /\ cr.ret = {"B", "D"}
    /\ cr.first.ret = {"B", "D"}

\* C38: a second collect_batch_fit_output with the same arguments ends as
\* the first did and leaves the file system as the first left it: the
\* symlinks and copies are made anew, equal, from the unchanged outputs,
\* and after a move no output is found.
C38_CollectIdempotent ==
    (ow # PyNone /\ ow.run = "second") =>
        /\ ow.pc \in {"done", "raised"} =>
              /\ ow.fs = ow.start
              /\ ow.pc = ow.first_pc
        /\ (ow.func.move /\ ow.first_pc = "done") => ow.yielded = <<>>
        /\ ~ow.func.move =>
              \A k \in DOMAIN ow.yielded :
                  ow.fs[ow.yielded[k].output_path] = ow.start[ow.yielded[k].output_path]

\* The second collection of two outputs by symlink has ended: the two
\* symlinks are as the first collection made them.
C38_Witness ==
    /\ ow # PyNone
    /\ ow.run = "second"
    /\ ow.pc = "done"
    /\ ow.func.symlink
    /\ ~ow.func.move
    /\ Len(ow.applied) = 2
    /\ \A k \in DOMAIN ow.applied :
          /\ ow.start[DestPath(ow.applied[k].subject_id, ow.applied[k].model_name)]
                 = Symlink(ow.applied[k].output_path)
          /\ ow.fs[DestPath(ow.applied[k].subject_id, ow.applied[k].model_name)]
                 = Symlink(ow.applied[k].output_path)

====
